---- MODULE Spec2Model ----
(***************************************************************************)
(* Restore reconciliation and permission propagation of the drive restore  *)
(* path: metadata.Permission.Equals, metadata.DiffPermissions,             *)
(* onedrive.computeParentPermissions, onedrive.UpdatePermissions,          *)
(* onedrive.RestorePermissions, the collision policy of                    *)
(* exchange.restoreContact, and sharepoint.ConsumeRestoreCollections with  *)
(* RestoreListCollection and RestorePageCollection.                        *)
(*                                                                         *)
(* Each group of operations has its own specification (SpecEquals,         *)
(* SpecDiff, ...); the variables of the other groups keep their initial    *)
(* value in it.                                                            *)
(***************************************************************************)
EXTENDS Integers, Sequences, FiniteSets, TLC

VARIABLES
    recv, other, eqOut,          \* Permission.Equals: receiver, argument, outcome
    before, after, diffOut,      \* DiffPermissions: the two inputs, outcome
    originDir, parentMetas,      \* computeParentPermissions: path, cache
    parentOut,                   \*   and outcome
    permAdded, permRemoved,      \* UpdatePermissions: the two inputs,
    oldPermIDToNewID,            \*   the permission id cache,
    upPc, upIdx, upErr,          \*   position, loop index, error returned,
    upCalls, upNextID,           \*   remote calls issued, next id the service hands out
    collisionKey, collisionMap,  \* restoreContact: collision key of the body, collision map,
    onCollision, apiMock,        \*   collision policy, the contactRestorer,
    rcCollision, rcPc, rcErr,    \*   the colliding entry, position, error returned,
    remote, rcCalls,             \*   items at the destination, remote calls issued
    current, rpPc, rpErr,        \* RestorePermissions: item metadata, position, error
    dcsIn,                       \* ConsumeRestoreCollections: collections as given,
    dcs, failFast, ctxDone,      \*   collections as they are ranged over, the mode of
                                 \*   the fault bus, whether ctx is cancelled,
    crPc, crIdx, restoreMetrics, \*   position, loop index, metrics so far,
    elCurrent, recoverable,      \*   failure of the local bus, errors recorded in the bus,
    crStatus, crErr, processed,  \*   status and error returned, collections begun,
    rlPc, rlMetrics, rlEl,       \* RestoreListCollection / RestorePageCollection:
    rlErr,                       \*   position, metrics, local failure, error returned,
    pending, items, itemsClosed, \*   items the producer still holds, the item channel,
    restored,                    \*   items whose restore began
    backupVersion, restorePerms, \* getCollectionMetadata: version, permission toggle,
    dcFiles, cmOut,              \*   metadata records of the collection, outcome
    gpOut,                       \* getParentMetadata: outcome
    fpIn, fpOut,                 \* FilterPermissions: perms, outcome
    heap, runCaches,             \* concurrent runs: cache instances, caches of each run,
    readLog, overwritten,        \*   entries read, entries of another run overwritten
    rrQueue, rrCur, rrPc, rrLog, \* run of RestorePermissions calls: targets left, target
                                 \*   at hand, position, outcome of each target done
    gdIn, maxRetryCount, ds,     \* GetAllDrives: arguments and pager, retry limit, drives,
    attempt, page, pagerAt,      \*   i of the retry loop, page at hand, page the pager
    getPageCalls, gdPc, gdOut    \*   is set to, GetPage calls made, position, outcome

eqVars == <<recv, other, eqOut>>
diffVars == <<before, after, diffOut>>
parentVars == <<originDir, parentMetas, parentOut>>
upVars == <<permAdded, permRemoved, oldPermIDToNewID, upPc, upIdx, upErr,
            upCalls, upNextID>>

rcVars == <<collisionKey, collisionMap, onCollision, apiMock, rcCollision, rcPc, rcErr,
            remote, rcCalls>>

rpVars == <<current, rpPc, rpErr>>

cmVars == <<backupVersion, restorePerms, dcFiles, cmOut, gpOut>>
fpVars == <<fpIn, fpOut>>

ccVars == <<heap, runCaches, readLog, overwritten>>
rrVars == <<rrQueue, rrCur, rrPc, rrLog>>
gdVars == <<gdIn, maxRetryCount, ds, attempt, page, pagerAt, getPageCalls, gdPc, gdOut>>

\* The groups of the operations that take no part in a restore run.
restVars == <<cmVars, fpVars, ccVars, rrVars, gdVars>>

rlVars == <<rlPc, rlMetrics, rlEl, rlErr, pending, items, itemsClosed, restored>>

crVars == <<dcsIn, dcs, failFast, ctxDone, crPc, crIdx, restoreMetrics, elCurrent, recoverable,
            crStatus, crErr, processed, rlVars>>

\* The variables of the permission and contact operations.
permAndContactVars == <<eqVars, diffVars, parentVars, upVars, rcVars, rpVars, restVars>>

vars == <<eqVars, diffVars, parentVars, upVars, rcVars, rpVars, crVars, restVars>>

(***************************************************************************)
(* Bounds of the model.                                                    *)
(***************************************************************************)
MaxRoles == 2
MaxPerms == 2
MaxDepth == 3
MaxColls == 2
MaxItems == 2

(***************************************************************************)
(* metadata.Permission and its value domains.                              *)
(***************************************************************************)
SharingModeCustom == 0
SharingModeInherited == 1

GV2User == "user"
GV2SiteGroup == "site_group"
GV2SiteUser == "site_user"
GV2Group == "group"
GV2App == "application"
GV2Device == "device"

RoleNames == {"owner", "read", "write"}

\* Byte-wise string order of the role names, the order slices.Sort uses.
RoleRank(r) == CASE r = "owner" -> 1 [] r = "read" -> 2 [] r = "write" -> 3

Permission(id, roles, email, entityID, entityType) ==
    [ID |-> id, Roles |-> roles, Email |-> email, EntityID |-> entityID,
     EntityType |-> entityType]

RECURSIVE SeqsUpTo(_, _)
SeqsUpTo(S, n) ==
    IF n = 0 THEN {<<>>}
    ELSE LET shorter == SeqsUpTo(S, n - 1)
         IN shorter \cup {Append(s, x) : s \in shorter, x \in S}

RECURSIVE InsertSorted(_, _)
InsertSorted(s, r) ==
    IF s = <<>> THEN <<r>>
    ELSE IF RoleRank(r) < RoleRank(Head(s)) THEN <<r>> \o s
    ELSE <<Head(s)>> \o InsertSorted(Tail(s), r)

\* slices.Sort on a []string of roles.
RECURSIVE SortRoles(_)
SortRoles(s) ==
    IF s = <<>> THEN <<>> ELSE InsertSorted(SortRoles(Tail(s)), Head(s))

(***************************************************************************)
(* Permission.Equals.  The receiver and the argument are struct copies,    *)
(* but their Roles slices share the callers' backing arrays, which         *)
(* slices.Sort orders in place: the outcome carries the value returned     *)
(* and both permissions as the caller sees them after the call.            *)
(***************************************************************************)
Equals(p, o) ==
    IF p.EntityID # "" /\ p.EntityID # o.EntityID
    THEN [eq |-> FALSE, p |-> p, other |-> o]
    ELSE IF p.Email # "" /\ p.Email # o.Email
    THEN [eq |-> FALSE, p |-> p, other |-> o]
    ELSE LET p1r == SortRoles(p.Roles)
             p2r == SortRoles(o.Roles)
         IN [eq |-> p1r = p2r,
             p |-> [p EXCEPT !.Roles = p1r],
             other |-> [o EXCEPT !.Roles = p2r]]

(***************************************************************************)
(* DiffPermissions.  mem holds the two input slices as the calls to Equals *)
(* leave them; added and removed are built from struct copies whose Roles  *)
(* alias the inputs' backing arrays, so they are kept as indices into      *)
(* after and before and read out of mem at the end.                        *)
(***************************************************************************)
\* for _, pp := range before { if cp.Equals(pp) { found = true; break } }
RECURSIVE ScanBefore(_, _, _)
ScanBefore(mem, i, j) ==
    IF j > Len(mem.before) THEN [found |-> FALSE, mem |-> mem]
    ELSE LET r == Equals(mem.after[i], mem.before[j])
             m2 == [before |-> [mem.before EXCEPT ![j] = r.other],
                    after |-> [mem.after EXCEPT ![i] = r.p]]
         IN IF r.eq THEN [found |-> TRUE, mem |-> m2]
            ELSE ScanBefore(m2, i, j + 1)

\* for _, cp := range after { if cp.Equals(pp) { found = true; break } }
RECURSIVE ScanAfter(_, _, _)
ScanAfter(mem, i, j) ==
    IF j > Len(mem.after) THEN [found |-> FALSE, mem |-> mem]
    ELSE LET r == Equals(mem.after[j], mem.before[i])
             m2 == [before |-> [mem.before EXCEPT ![i] = r.other],
                    after |-> [mem.after EXCEPT ![j] = r.p]]
         IN IF r.eq THEN [found |-> TRUE, mem |-> m2]
            ELSE ScanAfter(m2, i, j + 1)

RECURSIVE AddedLoopPrepend(_, _, _)
AddedLoopPrepend(mem, i, idx) ==
    IF i > Len(mem.after) THEN [mem |-> mem, idx |-> idx]
    ELSE LET s == ScanBefore(mem, i, 1)
         IN AddedLoopPrepend(s.mem, i + 1,
                             IF s.found THEN idx ELSE <<i>> \o idx)

\* The first loop: the elements of after without a match in before.
RECURSIVE AddedLoop(_, _, _)
AddedLoop(mem, i, idx) ==
    IF i > Len(mem.after) THEN [mem |-> mem, idx |-> idx]
    ELSE LET s == ScanBefore(mem, i, 1)
         IN AddedLoop(s.mem, i + 1, IF s.found THEN idx ELSE Append(idx, i))

\* The second loop: the elements of before without a match in after.
RECURSIVE RemovedLoop(_, _, _)
RemovedLoop(mem, i, idx) ==
    IF i > Len(mem.before) THEN [mem |-> mem, idx |-> idx]
    ELSE LET s == ScanAfter(mem, i, 1)
         IN RemovedLoop(s.mem, i + 1, IF s.found THEN idx ELSE Append(idx, i))

DiffPermissionsAddedOnly(b, a) ==
    LET l1 == AddedLoop([before |-> b, after |-> a], 1, <<>>)
    IN [added |-> [k \in 1..Len(l1.idx) |-> l1.mem.after[l1.idx[k]]],
        removed |-> <<>>,
        before |-> l1.mem.before,
        after |-> l1.mem.after]

DiffPermissions(b, a) ==
    LET l1 == AddedLoop([before |-> b, after |-> a], 1, <<>>)
        l2 == RemovedLoop(l1.mem, 1, <<>>)
    IN [added |-> [k \in 1..Len(l1.idx) |-> l2.mem.after[l1.idx[k]]],
        removed |-> [k \in 1..Len(l2.idx) |-> l2.mem.before[l2.idx[k]]],
        before |-> l2.mem.before,
        after |-> l2.mem.after]

(***************************************************************************)
(* metadata.Metadata: the zero value has sharing mode 0 and no permission. *)
(***************************************************************************)
Metadata(mode, perms) == [SharingMode |-> mode, Permissions |-> perms]

EmptyMetadata == Metadata(0, <<>>)

(***************************************************************************)
(* Paths.  A path is the sequence of its elements from the drive prefix    *)
(* on: drives, the drive id, root:, then the folders (and the item).       *)
(***************************************************************************)
DriveRoot == <<"drives", "d1", "root:">>

\* path.Path.Dir: the path without its last element.
Dir(p) ==
    IF Len(p) <= 1 THEN [err |-> TRUE, path |-> p]
    ELSE [err |-> FALSE, path |-> SubSeq(p, 1, Len(p) - 1)]

\* path.ToDrivePath: the folders below drives/<id>/root:.
ToDrivePath(p) ==
    IF Len(p) < Len(DriveRoot) THEN [err |-> TRUE, Folders |-> <<>>]
    ELSE [err |-> FALSE, Folders |-> SubSeq(p, Len(DriveRoot) + 1, Len(p))]

(***************************************************************************)
(* computeParentPermissions.  The outcome carries the metadata and the     *)
(* error returned, and the keys looked up in parentMetas, in order.        *)
(***************************************************************************)
ParentResult(meta, err, lookups) == [meta |-> meta, err |-> err, lookups |-> lookups]

stopsAtAnyMeta(meta) == TRUE

\* if meta.SharingMode == metadata.SharingModeCustom
stopsAt(meta) == meta.SharingMode = SharingModeCustom

atDriveRootNever(dp) == FALSE

\* if len(drivePath.Folders) == 0
atDriveRoot(dp) == Len(dp.Folders) = 0

noParentMetadataIgnored(path, lookups) ==
    ParentResult(EmptyMetadata, "nil", Append(lookups, path))

\* meta, ok := parentMetas.Load(parent.String())
\* if !ok { return metadata.Metadata{}, clues.New("no metadata found ...") }
noParentMetadata(path, lookups) ==
    ParentResult(EmptyMetadata, "no metadata found for parent folder",
                 Append(lookups, path))

\* One turn of the for loop, and the turns after it.
RECURSIVE cppLoop(_, _, _)
cppLoop(parent, metas, lookups) ==
    LET d == Dir(parent)
        dp == ToDrivePath(d.path)
    IN IF d.err THEN ParentResult(EmptyMetadata, "getting parent", lookups)
       ELSE IF dp.err
       THEN ParentResult(EmptyMetadata, "transforming dir to drivePath", lookups)
       ELSE IF atDriveRoot(dp) THEN ParentResult(EmptyMetadata, "nil", lookups)
       ELSE IF d.path \notin DOMAIN metas
       THEN noParentMetadata(d.path, lookups)
       ELSE IF stopsAt(metas[d.path])
       THEN ParentResult(metas[d.path], "nil", Append(lookups, d.path))
       ELSE cppLoop(d.path, metas, Append(lookups, d.path))

computeParentPermissions(origin, metas) == cppLoop(origin, metas, <<>>)

(***************************************************************************)
(* getParentMetadata and getCollectionMetadata.  The backup versions that  *)
(* change the behaviour carry their number in their name.  The metadata    *)
(* records of a collection are a function from the name of a record to the *)
(* Metadata it holds; reading a name outside its domain fails.  The        *)
(* outcome of getCollectionMetadata carries the metadata and the error     *)
(* returned, and the names of the records it read, in order.               *)
(***************************************************************************)
OneDrive1DataAndMetaFiles == 1
OneDrive4DirIncludesPermissions == 4
OneDrive5DirMetaNoName == 5

DirMetaFileSuffix == ".dirmeta"

getParentMetadataLenient(parentPath, parentDirToMeta) ==
    IF parentPath \in DOMAIN parentDirToMeta
    THEN [meta |-> parentDirToMeta[parentPath], err |-> "nil"]
    ELSE [meta |-> EmptyMetadata, err |-> "nil"]

\* parentMeta, ok := parentDirToMeta[parentPath.String()]; without an entry
\* the drive root gets the empty Metadata and every other path an error.
getParentMetadata(parentPath, parentDirToMeta) ==
    IF parentPath \in DOMAIN parentDirToMeta
    THEN [meta |-> parentDirToMeta[parentPath], err |-> "nil"]
    ELSE LET dp == ToDrivePath(parentPath)
         IN IF dp.err THEN [meta |-> EmptyMetadata, err |-> "invalid restore path"]
            ELSE IF Len(dp.Folders) # 0
            THEN [meta |-> EmptyMetadata, err |-> "computing item permissions"]
            ELSE [meta |-> EmptyMetadata, err |-> "nil"]

\* fetchAndReadMetadata(ctx, dc, metaName)
fetchAndReadMetadata(files, name) ==
    IF name \in DOMAIN files THEN [meta |-> files[name], err |-> FALSE]
    ELSE [meta |-> EmptyMetadata, err |-> TRUE]

metaNameAlwaysNamed(version, fullPath) == fullPath[Len(fullPath)] \o DirMetaFileSuffix

\* metaName := folders[len(folders)-1] + metadata.DirMetaFileSuffix
\* if backupVersion >= version.OneDrive5DirMetaNoName { metaName = the suffix }
metaName(version, fullPath) ==
    IF version >= OneDrive5DirMetaNoName THEN DirMetaFileSuffix
    ELSE fullPath[Len(fullPath)] \o DirMetaFileSuffix

CollMetaResult(meta, err, read) == [meta |-> meta, err |-> err, read |-> read]

getCollectionMetadata(fullPath, files, parentDirToMeta, version, perms) ==
    LET drivePath == ToDrivePath(fullPath)
    IN IF ~perms \/ version < OneDrive1DataAndMetaFiles
       THEN CollMetaResult(EmptyMetadata, "nil", <<>>)
       ELSE IF Len(drivePath.Folders) = 0
       THEN CollMetaResult(EmptyMetadata, "nil", <<>>)
       ELSE IF version < OneDrive4DirIncludesPermissions
       THEN LET r == getParentMetadata(fullPath, parentDirToMeta)
            IN IF r.err # "nil"
               THEN CollMetaResult(EmptyMetadata, "collection metadata", <<>>)
               ELSE CollMetaResult(r.meta, "nil", <<>>)
       ELSE LET name == metaName(version, fullPath)
                f == fetchAndReadMetadata(files, name)
            IN IF f.err
               THEN CollMetaResult(EmptyMetadata, "collection metadata", <<name>>)
               ELSE CollMetaResult(f.meta, "nil", <<name>>)

(***************************************************************************)
(* UpdatePermissions.  It advances from one remote call to the next: upPc  *)
(* is "removing" in the first loop, "adding" in the second and "done" once *)
(* it has returned upErr; upIdx is the index of the permission at hand.    *)
(* upCalls lists the DeleteItemPermission and PostItemPermissionUpdate     *)
(* calls issued so far, each with its outcome.  The expiration of a        *)
(* permission only travels into the request body and is left out.         *)
(***************************************************************************)
\* roles := every role of p other than "owner", in order.
nonOwnerRoles(p) == SelectSeq(p.Roles, LAMBDA r : r # "owner")

skipsAddWithoutRolesOnly(p) == Len(nonOwnerRoles(p)) = 0

\* if len(roles) == 0 || p.EntityType == metadata.GV2SiteGroup { continue }
skipsAdd(p) == Len(nonOwnerRoles(p)) = 0 \/ p.EntityType = GV2SiteGroup

\* The recipient of the invite: the entity id, or the email of older backups.
recipient(p) ==
    IF Len(p.EntityID) > 0 THEN [kind |-> "objectId", val |-> p.EntityID]
    ELSE [kind |-> "email", val |-> p.Email]

DeleteCall(pid, ok) == [op |-> "delete", pid |-> pid, roles |-> <<>>,
                        rec |-> [kind |-> "", val |-> ""], ok |-> ok]
PostCall(p, ok) == [op |-> "post", pid |-> <<"", 0>>, roles |-> nonOwnerRoles(p),
                    rec |-> recipient(p), ok |-> ok]

UPNoNewIDSkipped ==
    /\ upPc = "removing"
    /\ upIdx <= Len(permRemoved)
    /\ permRemoved[upIdx].ID \notin DOMAIN oldPermIDToNewID
    /\ upIdx' = upIdx + 1
    /\ UNCHANGED <<permAdded, permRemoved, oldPermIDToNewID, upPc, upErr, upCalls, upNextID>>
    /\ UNCHANGED <<eqVars, diffVars, parentVars, rcVars, rpVars, crVars, restVars>>

\* pid, ok := oldPermIDToNewID[p.ID]; if !ok { return "no new permission id" }
UPNoNewID ==
    /\ upPc = "removing"
    /\ upIdx <= Len(permRemoved)
    /\ permRemoved[upIdx].ID \notin DOMAIN oldPermIDToNewID
    /\ upPc' = "done"
    /\ upErr' = "no new permission id"
    /\ UNCHANGED <<permAdded, permRemoved, oldPermIDToNewID, upIdx, upCalls, upNextID>>
    /\ UNCHANGED <<eqVars, diffVars, parentVars, rcVars, rpVars, crVars, restVars>>

UPDeleteIgnoringFailure ==
    /\ upPc = "removing"
    /\ upIdx <= Len(permRemoved)
    /\ permRemoved[upIdx].ID \in DOMAIN oldPermIDToNewID
    /\ \E ok \in BOOLEAN :
          upCalls' = Append(upCalls,
                            DeleteCall(oldPermIDToNewID[permRemoved[upIdx].ID], ok))
    /\ upIdx' = upIdx + 1
    /\ UNCHANGED <<permAdded, permRemoved, oldPermIDToNewID, upPc, upErr, upNextID>>
    /\ UNCHANGED <<eqVars, diffVars, parentVars, rcVars, rpVars, crVars, restVars>>

\* err := udip.DeleteItemPermission(ictx, driveID, itemID, pid)
UPDelete ==
    /\ upPc = "removing"
    /\ upIdx <= Len(permRemoved)
    /\ permRemoved[upIdx].ID \in DOMAIN oldPermIDToNewID
    /\ \E ok \in BOOLEAN :
          /\ upCalls' = Append(upCalls,
                               DeleteCall(oldPermIDToNewID[permRemoved[upIdx].ID], ok))
          /\ IF ok
             THEN upIdx' = upIdx + 1 /\ UNCHANGED <<upPc, upErr>>
             ELSE upPc' = "done" /\ upErr' = "delete failed" /\ UNCHANGED upIdx
    /\ UNCHANGED <<permAdded, permRemoved, oldPermIDToNewID, upNextID>>
    /\ UNCHANGED <<eqVars, diffVars, parentVars, rcVars, rpVars, crVars, restVars>>

\* The first loop is over: on to the permissions to add.
UPRemovalsDone ==
    /\ upPc = "removing"
    /\ upIdx > Len(permRemoved)
    /\ upPc' = "adding"
    /\ upIdx' = 1
    /\ UNCHANGED <<permAdded, permRemoved, oldPermIDToNewID, upErr, upCalls, upNextID>>
    /\ UNCHANGED <<eqVars, diffVars, parentVars, rcVars, rpVars, crVars, restVars>>

\* A permission without roles to restore, or of a site group: continue.
UPSkipAdd ==
    /\ upPc = "adding"
    /\ upIdx <= Len(permAdded)
    /\ skipsAdd(permAdded[upIdx])
    /\ upIdx' = upIdx + 1
    /\ UNCHANGED <<permAdded, permRemoved, oldPermIDToNewID, upPc, upErr, upCalls,
                   upNextID>>
    /\ UNCHANGED <<eqVars, diffVars, parentVars, rcVars, rpVars, crVars, restVars>>

\* newPerm, err := udip.PostItemPermissionUpdate(ictx, driveID, itemID, pbody)
\* oldPermIDToNewID[p.ID] = the id of newPerm
UPPost ==
    /\ upPc = "adding"
    /\ upIdx <= Len(permAdded)
    /\ ~skipsAdd(permAdded[upIdx])
    /\ \E ok \in BOOLEAN :
          /\ upCalls' = Append(upCalls, PostCall(permAdded[upIdx], ok))
          /\ IF ok
             THEN /\ oldPermIDToNewID' =
                        [k \in DOMAIN oldPermIDToNewID \cup {permAdded[upIdx].ID} |->
                            IF k = permAdded[upIdx].ID THEN <<"new", upNextID>>
                            ELSE oldPermIDToNewID[k]]
                  /\ upNextID' = upNextID + 1
                  /\ upIdx' = upIdx + 1
                  /\ UNCHANGED <<upPc, upErr>>
             ELSE /\ upPc' = "done"
                  /\ upErr' = "post failed"
                  /\ UNCHANGED <<oldPermIDToNewID, upNextID, upIdx>>
    /\ UNCHANGED <<permAdded, permRemoved>>
    /\ UNCHANGED <<eqVars, diffVars, parentVars, rcVars, rpVars, crVars, restVars>>

\* Both loops are over: return nil.
UPReturn ==
    /\ upPc = "adding"
    /\ upIdx > Len(permAdded)
    /\ upPc' = "done"
    /\ upErr' = "nil"
    /\ UNCHANGED <<permAdded, permRemoved, oldPermIDToNewID, upIdx, upCalls, upNextID>>
    /\ UNCHANGED <<eqVars, diffVars, parentVars, rcVars, rpVars, crVars, restVars>>

UpdatePermissions ==
    \/ UPNoNewID
    \/ UPDelete
    \/ UPRemovalsDone
    \/ UPSkipAdd
    \/ UPPost
    \/ UPReturn

(***************************************************************************)
(* RestorePermissions(itemPath, current, caches).  originDir is itemPath,  *)
(* parentMetas is caches.ParentDirToMeta and oldPermIDToNewID is           *)
(* caches.OldPermIDToNewID.  rpPc is "start" before the call, "updating"   *)
(* while UpdatePermissions runs and "done" once it has returned rpErr.     *)
(* parentOut records the call of computeParentPermissions.                 *)
(***************************************************************************)
skipsRestoreNever(cur) == FALSE

\* if current.SharingMode == metadata.SharingModeInherited { return nil }
skipsRestore(cur) == cur.SharingMode = SharingModeInherited

restoreDeltaSwapped(parents, cur) ==
    LET d == DiffPermissions(cur.Permissions, parents.Permissions)
    IN [added |-> d.added, removed |-> d.removed, before |-> d.after, after |-> d.before]

\* permAdded, permRemoved := metadata.DiffPermissions(parents.Permissions,
\*                                                    current.Permissions)
restoreDelta(parents, cur) == DiffPermissions(parents.Permissions, cur.Permissions)

\* The key of the cache entry that computeParentPermissions returned, if any:
\* its Permissions share their backing arrays with the returned copy.
parentKey(r, metas) ==
    IF r.err = "nil" /\ Len(r.lookups) > 0 /\ stopsAt(metas[r.lookups[Len(r.lookups)]])
    THEN {r.lookups[Len(r.lookups)]} ELSE {}

RPInherited ==
    /\ rpPc = "start"
    /\ skipsRestore(current)
    /\ rpPc' = "done"
    /\ rpErr' = "nil"
    /\ UNCHANGED <<current, eqVars, diffVars, parentVars, upVars, rcVars, crVars, restVars>>

RPParentErrorDropped ==
    /\ rpPc = "start"
    /\ ~skipsRestore(current)
    /\ LET r == computeParentPermissions(originDir, parentMetas)
       IN /\ r.err # "nil"
          /\ parentOut' = [called |-> TRUE, meta |-> r.meta, err |-> r.err,
                           lookups |-> r.lookups]
    /\ rpPc' = "done"
    /\ rpErr' = "nil"
    /\ UNCHANGED <<current, originDir, parentMetas>>
    /\ UNCHANGED <<eqVars, diffVars, upVars, rcVars, crVars, restVars>>

\* parents, err := computeParentPermissions(ctx, itemPath, caches.ParentDirToMeta)
\* if err != nil { return clues.Wrap(err, "parent permissions") }
RPParentError ==
    /\ rpPc = "start"
    /\ ~skipsRestore(current)
    /\ LET r == computeParentPermissions(originDir, parentMetas)
       IN /\ r.err # "nil"
          /\ parentOut' = [called |-> TRUE, meta |-> r.meta, err |-> r.err,
                           lookups |-> r.lookups]
    /\ rpPc' = "done"
    /\ rpErr' = "parent permissions"
    /\ UNCHANGED <<current, originDir, parentMetas>>
    /\ UNCHANGED <<eqVars, diffVars, upVars, rcVars, crVars, restVars>>

\* The parents are resolved and the delta computed: UpdatePermissions begins.
RPDiff ==
    /\ rpPc = "start"
    /\ ~skipsRestore(current)
    /\ LET r == computeParentPermissions(originDir, parentMetas)
           d == restoreDelta(r.meta, current)
       IN /\ r.err = "nil"
          /\ parentOut' = [called |-> TRUE, meta |-> r.meta, err |-> r.err,
                           lookups |-> r.lookups]
          /\ permAdded' = d.added
          /\ permRemoved' = d.removed
          /\ current' = [current EXCEPT !.Permissions = d.after]
          /\ parentMetas' = [k \in DOMAIN parentMetas |->
                                IF k \in parentKey(r, parentMetas)
                                THEN [parentMetas[k] EXCEPT !.Permissions = d.before]
                                ELSE parentMetas[k]]
    /\ upPc' = "removing"
    /\ upIdx' = 1
    /\ upErr' = "nil"
    /\ rpPc' = "updating"
    /\ UNCHANGED <<originDir, oldPermIDToNewID, upCalls, upNextID, rpErr>>
    /\ UNCHANGED <<eqVars, diffVars, rcVars, crVars, restVars>>

\* return UpdatePermissions(...)
RPReturn ==
    /\ rpPc = "updating"
    /\ upPc = "done"
    /\ rpPc' = "done"
    /\ rpErr' = upErr
    /\ UNCHANGED <<current, eqVars, diffVars, parentVars, upVars, rcVars, crVars, restVars>>

RestorePermissions ==
    \/ RPInherited
    \/ RPParentError
    \/ RPDiff
    \/ UPNoNewID
    \/ UPDelete
    \/ UPRemovalsDone
    \/ UPSkipAdd
    \/ UPPost
    \/ UPReturn
    \/ RPReturn

(***************************************************************************)
(* contactRestoreMock, the contactRestorer of TestRestoreContact: each     *)
(* method notes that it was called and returns the error it was given.     *)
(***************************************************************************)
ContactRestoreMock(postItemErr, deleteItemErr) ==
    [postItemErr |-> postItemErr, calledPost |-> FALSE,
     deleteItemErr |-> deleteItemErr, calledDelete |-> FALSE]

MockPostItem(m) == [m |-> [m EXCEPT !.calledPost = TRUE], err |-> m.postItemErr]

MockDeleteItem(m) == [m |-> [m EXCEPT !.calledDelete = TRUE], err |-> m.deleteItemErr]

(***************************************************************************)
(* restoreContact, the collision policy of one restored contact.  It       *)
(* advances from one remote call to the next: rcPc is "start", "posted"    *)
(* between the post and the delete of a replace, and "done" once it has    *)
(* returned rcErr.  remote is the set of items at the destination, each    *)
(* with its collision key: a post that succeeds adds the new item, a       *)
(* delete that succeeds takes the named item away.                         *)
(***************************************************************************)
NoCollision == [ok |-> FALSE, id |-> ""]

NewItemID == "new"

\* The key collides and the policy is Skip: the conflict error, no call.
RCSkip ==
    /\ rcPc = "start"
    /\ collisionKey \in DOMAIN collisionMap
    /\ onCollision = "skip"
    /\ rcCollision' = [ok |-> TRUE, id |-> collisionMap[collisionKey]]
    /\ rcPc' = "done"
    /\ rcErr' = "ErrItemAlreadyExistsConflict"
    /\ UNCHANGED <<collisionKey, collisionMap, onCollision, apiMock, remote, rcCalls>>
    /\ UNCHANGED <<eqVars, diffVars, parentVars, upVars, rpVars, crVars, restVars>>

RCPostDeleteRegardless ==
    /\ rcPc = "start"
    /\ ~(collisionKey \in DOMAIN collisionMap /\ onCollision = "skip")
    /\ LET hit == collisionKey \in DOMAIN collisionMap
           r == MockPostItem(apiMock)
       IN /\ rcCollision' = IF hit THEN [ok |-> TRUE, id |-> collisionMap[collisionKey]]
                            ELSE NoCollision
          /\ apiMock' = r.m
          /\ rcCalls' = Append(rcCalls, <<"post", NewItemID>>)
          /\ remote' = IF r.err THEN remote
                       ELSE remote \cup {[id |-> NewItemID, key |-> collisionKey]}
          /\ collisionMap' = collisionMap
          /\ IF hit /\ onCollision = "replace"
             THEN rcPc' = "posted" /\ rcErr' = "nil"
             ELSE rcPc' = "done" /\ rcErr' = IF r.err THEN "post failed" ELSE "nil"
    /\ UNCHANGED <<collisionKey, onCollision>>
    /\ UNCHANGED <<eqVars, diffVars, parentVars, upVars, rpVars, crVars, restVars>>

\* No collision, or the policy is Copy or Replace: post the new item.
RCPost ==
    /\ rcPc = "start"
    /\ ~(collisionKey \in DOMAIN collisionMap /\ onCollision = "skip")
    /\ LET hit == collisionKey \in DOMAIN collisionMap
           r == MockPostItem(apiMock)
       IN /\ rcCollision' = IF hit THEN [ok |-> TRUE, id |-> collisionMap[collisionKey]]
                            ELSE NoCollision
          /\ apiMock' = r.m
          /\ rcCalls' = Append(rcCalls, <<"post", NewItemID>>)
          /\ IF r.err
             THEN /\ rcPc' = "done"
                  /\ rcErr' = "post failed"
                  /\ UNCHANGED <<remote, collisionMap>>
             ELSE /\ remote' = remote \cup {[id |-> NewItemID, key |-> collisionKey]}
                  /\ collisionMap' =
                        IF hit THEN collisionMap
                        ELSE [k \in DOMAIN collisionMap \cup {collisionKey} |->
                                IF k = collisionKey THEN NewItemID ELSE collisionMap[k]]
                  /\ IF hit /\ onCollision = "replace"
                     THEN rcPc' = "posted" /\ rcErr' = "nil"
                     ELSE rcPc' = "done" /\ rcErr' = "nil"
    /\ UNCHANGED <<collisionKey, onCollision>>
    /\ UNCHANGED <<eqVars, diffVars, parentVars, upVars, rpVars, crVars, restVars>>

deleteOutcomeIgnored(err) == "nil"

\* What restoreContact returns after the delete of the old item.
deleteOutcome(err) == IF err THEN "delete failed" ELSE "nil"

RCDeleteNothing ==
    /\ rcPc = "posted"
    /\ rcPc' = "done"
    /\ rcErr' = "nil"
    /\ UNCHANGED <<collisionKey, collisionMap, onCollision, apiMock, rcCollision, remote,
                   rcCalls>>
    /\ UNCHANGED <<eqVars, diffVars, parentVars, upVars, rpVars, crVars, restVars>>

\* Replace, after the post: delete the old item by its cached id.
RCDelete ==
    /\ rcPc = "posted"
    /\ LET r == MockDeleteItem(apiMock)
       IN /\ apiMock' = r.m
          /\ rcCalls' = Append(rcCalls, <<"delete", rcCollision.id>>)
          /\ remote' = IF r.err THEN remote
                       ELSE {x \in remote : x.id # rcCollision.id}
          /\ rcErr' = deleteOutcome(r.err)
          /\ rcPc' = "done"
    /\ UNCHANGED <<collisionKey, collisionMap, onCollision, rcCollision>>
    /\ UNCHANGED <<eqVars, diffVars, parentVars, upVars, rpVars, crVars, restVars>>

restoreContact ==
    \/ RCSkip
    \/ RCPost
    \/ RCDelete

(***************************************************************************)
(* sharepoint.ConsumeRestoreCollections.  A collection is its category,    *)
(* the folders of its path and the number of items its backup holds; its   *)
(* full path is the category followed by the folders.                      *)
(***************************************************************************)
ListsCategory == "lists"
PagesCategory == "pages"

Collection(category, folders, n) == [category |-> category, folders |-> folders, n |-> n]

FullPath(dc) == <<dc.category>> \o dc.folders

IsProperPrefix(p, q) == Len(p) < Len(q) /\ SubSeq(q, 1, Len(p)) = p

\* support.CollectionMetrics
CollectionMetrics(objects, bytes, successes) ==
    [Objects |-> objects, Bytes |-> bytes, Successes |-> successes]

NoMetrics == CollectionMetrics(0, 0, 0)

\* support.CombineMetrics: the sum, field by field.
CombineMetrics(a, b) ==
    CollectionMetrics(a.Objects + b.Objects, a.Bytes + b.Bytes,
                      a.Successes + b.Successes)

\* support.CreateStatus(ctx, support.Restore, len(dcs), restoreMetrics, ...)
CreateStatus(folders, metrics) == [nil |-> FALSE, folders |-> folders, metrics |-> metrics]

NilStatus == [nil |-> TRUE, folders |-> 0, metrics |-> NoMetrics]

\* The size of every restored item, itemInfo.SharePoint.Size.
ItemSize == 2

ErrCanceled == "context canceled"

\* errors.Is(err, context.Canceled)
isCanceled(err) == err = ErrCanceled

(***************************************************************************)
(* fault.Bus.  el := errs.Local() is a bus of its own that forwards what   *)
(* it is given to errs.  AddRecoverable appends the error to the errors    *)
(* recorded in errs; when the bus was made fail-fast, fault.New(true), the *)
(* first error given to a local bus also becomes its Failure().            *)
(***************************************************************************)
localFailure(cur, ff, err) == IF cur = "nil" /\ ff THEN err ELSE cur

(***************************************************************************)
(* data.SortRestoreCollections: the collections by the length of their     *)
(* path, shortest first.  The order among paths of one length is open.     *)
(***************************************************************************)
Orderings(d) ==
    {s \in [1..Len(d) -> {d[k] : k \in 1..Len(d)}] :
        \A k \in 1..Len(d) : \E i \in 1..Len(d) : s[i] = d[k]}

SortRestoreCollections(d) ==
    {s \in Orderings(d) :
        \A i \in 1..Len(s) : \A j \in 1..Len(s) :
            i < j => Len(FullPath(s[i])) <= Len(FullPath(s[j]))}

CRSortSkipped ==
    /\ crPc = "start"
    /\ crPc' = "loop"
    /\ UNCHANGED <<dcsIn, dcs, failFast, ctxDone, crIdx, restoreMetrics, elCurrent,
                   recoverable, crStatus, crErr, processed, rlVars>>
    /\ UNCHANGED permAndContactVars

\* data.SortRestoreCollections(dcs)
CRSort ==
    /\ crPc = "start"
    /\ dcs' \in SortRestoreCollections(dcs)
    /\ crPc' = "loop"
    /\ UNCHANGED <<dcsIn, failFast, ctxDone, crIdx, restoreMetrics, elCurrent,
                   recoverable, crStatus, crErr, processed, rlVars>>
    /\ UNCHANGED permAndContactVars

\* for _, dc := range dcs { if el.Failure() != nil { break } ...
CRBreakOnFailure ==
    /\ crPc = "loop"
    /\ crIdx <= Len(dcs)
    /\ elCurrent # "nil"
    /\ crPc' = "afterLoop"
    /\ UNCHANGED <<dcsIn, dcs, failFast, ctxDone, crIdx, restoreMetrics, elCurrent, recoverable,
                   crStatus, crErr, processed, rlVars>>
    /\ UNCHANGED permAndContactVars

CRUnsupportedSkipped ==
    /\ crPc = "loop"
    /\ crIdx <= Len(dcs)
    /\ elCurrent = "nil"
    /\ dcs[crIdx].category \notin {ListsCategory, PagesCategory}
    /\ crIdx' = crIdx + 1
    /\ UNCHANGED <<dcsIn, dcs, failFast, ctxDone, crPc, restoreMetrics, elCurrent, recoverable,
                   crStatus, crErr, processed, rlVars>>
    /\ UNCHANGED permAndContactVars

\* default: return nil, clues.Wrap(..., "category not supported")
CRUnsupported ==
    /\ crPc = "loop"
    /\ crIdx <= Len(dcs)
    /\ elCurrent = "nil"
    /\ dcs[crIdx].category \notin {ListsCategory, PagesCategory}
    /\ crPc' = "done"
    /\ crStatus' = NilStatus
    /\ crErr' = "category not supported"
    /\ UNCHANGED <<dcsIn, dcs, failFast, ctxDone, crIdx, restoreMetrics, elCurrent, recoverable,
                   processed, rlVars>>
    /\ UNCHANGED permAndContactVars

\* case path.ListsCategory, path.PagesCategory: RestoreListCollection or
\* RestorePageCollection begins; items = dc.Items(ctx, errs) starts the
\* producer of the collection and el = errs.Local() a new local bus.
CRBeginCollection ==
    /\ crPc = "loop"
    /\ crIdx <= Len(dcs)
    /\ elCurrent = "nil"
    /\ dcs[crIdx].category \in {ListsCategory, PagesCategory}
    /\ crPc' = "inColl"
    /\ processed' = Append(processed, FullPath(dcs[crIdx]))
    /\ rlPc' = "loop"
    /\ rlMetrics' = NoMetrics
    /\ rlEl' = "nil"
    /\ rlErr' = "nil"
    /\ pending' = [k \in 1..dcs[crIdx].n |-> k]
    /\ items' = <<>>
    /\ itemsClosed' = FALSE
    /\ UNCHANGED <<dcsIn, dcs, failFast, ctxDone, crIdx, restoreMetrics, elCurrent, recoverable,
                   crStatus, crErr, restored>>
    /\ UNCHANGED permAndContactVars

CRCollectionDoneDroppingFailed ==
    /\ crPc = "inColl"
    /\ rlPc = "returned"
    /\ restoreMetrics' = IF rlErr # "nil" THEN restoreMetrics
                         ELSE CombineMetrics(restoreMetrics, rlMetrics)
    /\ IF rlErr # "nil"
       THEN /\ recoverable' = Append(recoverable, rlErr)
            /\ elCurrent' = localFailure(elCurrent, failFast, rlErr)
       ELSE UNCHANGED <<recoverable, elCurrent>>
    /\ IF isCanceled(rlErr)
       THEN crPc' = "afterLoop" /\ UNCHANGED crIdx
       ELSE crPc' = "loop" /\ crIdx' = crIdx + 1
    /\ rlPc' = "idle"
    /\ UNCHANGED <<dcsIn, dcs, failFast, ctxDone, crStatus, crErr, processed>>
    /\ UNCHANGED <<rlMetrics, rlEl, rlErr, pending, items, itemsClosed, restored>>
    /\ UNCHANGED permAndContactVars

\* The collection has returned metrics and err:
\* restoreMetrics = support.CombineMetrics(restoreMetrics, metrics)
\* if err != nil { el.AddRecoverable(ctx, err) }
\* if errors.Is(err, context.Canceled) { break }
CRCollectionDone ==
    /\ crPc = "inColl"
    /\ rlPc = "returned"
    /\ restoreMetrics' = CombineMetrics(restoreMetrics, rlMetrics)
    /\ IF rlErr # "nil"
       THEN /\ recoverable' = Append(recoverable, rlErr)
            /\ elCurrent' = localFailure(elCurrent, failFast, rlErr)
       ELSE UNCHANGED <<recoverable, elCurrent>>
    /\ IF isCanceled(rlErr)
       THEN crPc' = "afterLoop" /\ UNCHANGED crIdx
       ELSE crPc' = "loop" /\ crIdx' = crIdx + 1
    /\ rlPc' = "idle"
    /\ UNCHANGED <<dcsIn, dcs, failFast, ctxDone, crStatus, crErr, processed>>
    /\ UNCHANGED <<rlMetrics, rlEl, rlErr, pending, items, itemsClosed, restored>>
    /\ UNCHANGED permAndContactVars

\* The range over dcs is exhausted.
CRLoopEnd ==
    /\ crPc = "loop"
    /\ crIdx > Len(dcs)
    /\ crPc' = "afterLoop"
    /\ UNCHANGED <<dcsIn, dcs, failFast, ctxDone, crIdx, restoreMetrics, elCurrent, recoverable,
                   crStatus, crErr, processed, rlVars>>
    /\ UNCHANGED permAndContactVars

\* status := support.CreateStatus(...); return status, el.Failure()
CRReturn ==
    /\ crPc = "afterLoop"
    /\ crStatus' = CreateStatus(Len(dcs), restoreMetrics)
    /\ crErr' = elCurrent
    /\ crPc' = "done"
    /\ UNCHANGED <<dcsIn, dcs, failFast, ctxDone, crIdx, restoreMetrics, elCurrent, recoverable,
                   processed, rlVars>>
    /\ UNCHANGED permAndContactVars

(***************************************************************************)
(* RestoreListCollection and RestorePageCollection, which differ in the    *)
(* call that restores one item only.  rlPc is "loop" at the top of the for *)
(* loop and "returned" once the collection has returned rlMetrics and      *)
(* rlErr.  One turn of the loop, the restore of the item it received       *)
(* included, is one step.                                                  *)
(***************************************************************************)
\* What the restore of one item may meet: restoreListItem or RestoreSitePage
\* fails, AppendItem fails, deets.Add fails, or nothing fails.
ItemOutcomes == {"restoring item", "appending item to full path", "deets", "ok"}

\* metrics.Objects++, then metrics.Bytes += size unless the restore failed,
\* then metrics.Successes++ unless the restore or AppendItem failed.
metricsAfter(m, o) ==
    CollectionMetrics(m.Objects + 1,
                      IF o = "restoring item" THEN m.Bytes ELSE m.Bytes + ItemSize,
                      IF o \in {"deets", "ok"} THEN m.Successes + 1 ELSE m.Successes)

isItemErrorWithDeets(o) == o \in {"restoring item", "appending item to full path", "deets"}

\* The outcomes that end in el.AddRecoverable(ctx, err); continue.
isItemError(o) == o \in {"restoring item", "appending item to full path"}

\* for { if el.Failure() != nil { break } ... } return metrics, el.Failure()
RLBreakOnFailure ==
    /\ rlPc = "loop"
    /\ rlEl # "nil"
    /\ rlPc' = "returned"
    /\ rlErr' = rlEl
    /\ UNCHANGED <<rlMetrics, rlEl, pending, items, itemsClosed, restored>>
    /\ UNCHANGED <<dcsIn, dcs, failFast, ctxDone, crPc, crIdx, restoreMetrics, elCurrent,
                   recoverable, crStatus, crErr, processed>>
    /\ UNCHANGED permAndContactVars

\* case <-ctx.Done(): return metrics, clues.Stack(ctx.Err())
RLCancelled ==
    /\ rlPc = "loop"
    /\ rlEl = "nil"
    /\ ctxDone
    /\ rlPc' = "returned"
    /\ rlErr' = ErrCanceled
    /\ UNCHANGED <<rlMetrics, rlEl, pending, items, itemsClosed, restored>>
    /\ UNCHANGED <<dcsIn, dcs, failFast, ctxDone, crPc, crIdx, restoreMetrics, elCurrent,
                   recoverable, crStatus, crErr, processed>>
    /\ UNCHANGED permAndContactVars

RLNoMoreItemsIgnored ==
    /\ rlPc = "loop"
    /\ rlEl = "nil"
    /\ items = <<>>
    /\ itemsClosed
    /\ UNCHANGED vars

\* case itemData, ok := <-items: if !ok { return metrics, nil }
RLNoMoreItems ==
    /\ rlPc = "loop"
    /\ rlEl = "nil"
    /\ items = <<>>
    /\ itemsClosed
    /\ rlPc' = "returned"
    /\ rlErr' = "nil"
    /\ UNCHANGED <<rlMetrics, rlEl, pending, items, itemsClosed, restored>>
    /\ UNCHANGED <<dcsIn, dcs, failFast, ctxDone, crPc, crIdx, restoreMetrics, elCurrent,
                   recoverable, crStatus, crErr, processed>>
    /\ UNCHANGED permAndContactVars

\* case itemData, ok := <-items: with ok true, the item is restored.  The
\* select takes this case whenever an item is ready, whether or not
\* ctx.Done() is ready too.
RLItem ==
    /\ rlPc = "loop"
    /\ rlEl = "nil"
    /\ items # <<>>
    /\ \E o \in ItemOutcomes :
          /\ rlMetrics' = metricsAfter(rlMetrics, o)
          /\ restored' = Append(restored,
                                [path |-> FullPath(dcs[crIdx]), id |-> Head(items),
                                 outcome |-> o, afterCancel |-> ctxDone])
          /\ IF isItemError(o)
             THEN /\ recoverable' = Append(recoverable, o)
                  /\ rlEl' = localFailure(rlEl, failFast, o)
             ELSE UNCHANGED <<recoverable, rlEl>>
    /\ items' = Tail(items)
    /\ UNCHANGED <<rlPc, rlErr, pending, itemsClosed>>
    /\ UNCHANGED <<dcsIn, dcs, failFast, ctxDone, crPc, crIdx, restoreMetrics, elCurrent,
                   crStatus, crErr, processed>>
    /\ UNCHANGED permAndContactVars

(***************************************************************************)
(* The producer behind dc.Items(ctx, errs): it streams the items of the    *)
(* collection into the bounded item channel, waits while the channel is    *)
(* full, and closes the channel after the last item.                       *)
(***************************************************************************)
ChanCap == 1

ProducerSend ==
    /\ pending # <<>>
    /\ Len(items) < ChanCap
    /\ items' = Append(items, Head(pending))
    /\ pending' = Tail(pending)
    /\ UNCHANGED <<rlPc, rlMetrics, rlEl, rlErr, itemsClosed, restored>>
    /\ UNCHANGED <<dcsIn, dcs, failFast, ctxDone, crPc, crIdx, restoreMetrics, elCurrent,
                   recoverable, crStatus, crErr, processed>>
    /\ UNCHANGED permAndContactVars

ProducerClose ==
    /\ pending = <<>>
    /\ ~itemsClosed
    /\ itemsClosed' = TRUE
    /\ UNCHANGED <<rlPc, rlMetrics, rlEl, rlErr, pending, items, restored>>
    /\ UNCHANGED <<dcsIn, dcs, failFast, ctxDone, crPc, crIdx, restoreMetrics, elCurrent,
                   recoverable, crStatus, crErr, processed>>
    /\ UNCHANGED permAndContactVars

\* The caller cancels ctx, at any time before ConsumeRestoreCollections returns.
CtxCancel ==
    /\ ~ctxDone
    /\ crPc # "done"
    /\ ctxDone' = TRUE
    /\ UNCHANGED <<dcsIn, dcs, failFast, crPc, crIdx, restoreMetrics, elCurrent, recoverable,
                   crStatus, crErr, processed, rlVars>>
    /\ UNCHANGED permAndContactVars

\* The steps of the goroutine that runs ConsumeRestoreCollections.
Consumer ==
    \/ CRSort
    \/ CRBreakOnFailure
    \/ CRUnsupported
    \/ CRBeginCollection
    \/ RLBreakOnFailure
    \/ RLCancelled
    \/ RLNoMoreItems
    \/ RLItem
    \/ CRCollectionDone
    \/ CRLoopEnd
    \/ CRReturn

\* The steps of the goroutine behind the item channel.
Producer ==
    \/ ProducerSend
    \/ ProducerClose

(***************************************************************************)
(* Inputs.  A backed-up permission carries an entity id (newer backups),   *)
(* an email (older backups) or both, never neither.                        *)
(***************************************************************************)
EntityIDs == {"", "U1", "U2"}
Emails == {"", "a@x"}

EqPerms ==
    {q \in {Permission("p", r, e, u, GV2User) :
                r \in SeqsUpTo(RoleNames, MaxRoles), e \in Emails, u \in EntityIDs} :
        q.Email # "" \/ q.EntityID # ""}

DiffPerms ==
    {Permission("p", r, i[2], i[1], GV2User) :
        r \in {<<"read">>, <<"write", "read">>},
        i \in {<<"U1", "">>, <<"", "a@x">>, <<"U1", "a@x">>}}

NoEqOut == [called |-> FALSE, ab |-> FALSE, ba |-> FALSE, aa |-> FALSE,
            p |-> Permission("", <<>>, "", "", ""),
            other |-> Permission("", <<>>, "", "", "")]
NoDiffOut == [called |-> FALSE, added |-> <<>>, removed |-> <<>>,
              before |-> <<>>, after |-> <<>>]

IdleEquals == recv = Permission("", <<>>, "", "", "") /\ other = recv /\ eqOut = NoEqOut
IdleDiff == before = <<>> /\ after = <<>> /\ diffOut = NoDiffOut

NoParentOut == [called |-> FALSE, meta |-> EmptyMetadata, err |-> "nil", lookups |-> <<>>]

IdleParent == originDir = DriveRoot /\ parentMetas = <<>> /\ parentOut = NoParentOut

IdleContact ==
    /\ collisionKey = ""
    /\ collisionMap = <<>>
    /\ onCollision = "skip"
    /\ apiMock = ContactRestoreMock(FALSE, FALSE)
    /\ rcCollision = NoCollision
    /\ rcPc = "done"
    /\ rcErr = "nil"
    /\ remote = {}
    /\ rcCalls = <<>>

IdleUpdate ==
    /\ permAdded = <<>>
    /\ permRemoved = <<>>
    /\ oldPermIDToNewID = <<>>
    /\ upPc = "done"
    /\ upIdx = 1
    /\ upErr = "nil"
    /\ upCalls = <<>>
    /\ upNextID = 1

IdleRestore == current = EmptyMetadata /\ rpPc = "done" /\ rpErr = "nil"

NoCollMetaOut == [called |-> FALSE, meta |-> EmptyMetadata, err |-> "nil", read |-> <<>>]

NoParentMetaOut == [called |-> FALSE, meta |-> EmptyMetadata, err |-> "nil"]

IdleCollMeta ==
    /\ backupVersion = 0
    /\ restorePerms = FALSE
    /\ dcFiles = <<>>
    /\ cmOut = NoCollMetaOut
    /\ gpOut = NoParentMetaOut

NoFilterOut == [called |-> FALSE, up |-> <<>>]

IdleFilter == fpIn = <<>> /\ fpOut = NoFilterOut

IdleCaches ==
    /\ heap = <<>>
    /\ runCaches = <<>>
    /\ readLog = {}
    /\ overwritten = FALSE

NoTarget == [kind |-> "", path |-> <<>>, meta |-> EmptyMetadata]

NilPage == 0

NoDrivesOut == [returned |-> FALSE, nil |-> TRUE, ds |-> <<>>, err |-> "nil"]

IdleDrives ==
    /\ gdIn = [retry |-> FALSE, maxRetryCount |-> 0, pages |-> 1]
    /\ maxRetryCount = 0
    /\ ds = <<>>
    /\ attempt = 0
    /\ page = NilPage
    /\ pagerAt = 1
    /\ getPageCalls = <<>>
    /\ gdPc = "done"
    /\ gdOut = NoDrivesOut

IdleRestoreRun ==
    /\ rrQueue = <<>>
    /\ rrCur = [target |-> NoTarget, mapBefore |-> <<>>]
    /\ rrPc = "next"
    /\ rrLog = <<>>

IdleCollection ==
    /\ rlPc = "idle"
    /\ rlMetrics = NoMetrics
    /\ rlEl = "nil"
    /\ rlErr = "nil"
    /\ pending = <<>>
    /\ items = <<>>
    /\ itemsClosed = TRUE
    /\ restored = <<>>

IdleConsume ==
    /\ dcsIn = <<>>
    /\ dcs = <<>>
    /\ failFast = FALSE
    /\ ctxDone = FALSE
    /\ crPc = "done"
    /\ crIdx = 1
    /\ restoreMetrics = NoMetrics
    /\ elCurrent = "nil"
    /\ recoverable = <<>>
    /\ crStatus = NilStatus
    /\ crErr = "nil"
    /\ processed = <<>>
    /\ IdleCollection

(***************************************************************************)
(* SpecEquals: a.Equals(b), then b.Equals(a), then a.Equals(a), on the     *)
(* same two permissions.                                                   *)
(***************************************************************************)
InitEquals ==
    /\ recv \in EqPerms
    /\ other \in EqPerms
    /\ eqOut = NoEqOut
    /\ IdleDiff
    /\ IdleParent
    /\ IdleUpdate
    /\ IdleContact
    /\ IdleRestore
    /\ IdleConsume
    /\ IdleCollMeta
    /\ IdleFilter
    /\ IdleCaches
    /\ IdleRestoreRun
    /\ IdleDrives

CallEquals ==
    /\ ~eqOut.called
    /\ LET r1 == Equals(recv, other)
           r2 == Equals(r1.other, r1.p)
           r3 == Equals(r2.other, r2.other)
       IN eqOut' = [called |-> TRUE, ab |-> r1.eq, ba |-> r2.eq, aa |-> r3.eq,
                    p |-> r3.p, other |-> r2.p]
    /\ UNCHANGED <<recv, other, diffVars, parentVars, upVars, rcVars, rpVars, crVars, restVars>>

NextEquals == CallEquals

SpecEquals == InitEquals /\ [][NextEquals]_vars

(***************************************************************************)
(* SpecDiff: one call of DiffPermissions(before, after).                   *)
(***************************************************************************)
InitDiff ==
    /\ before \in SeqsUpTo(DiffPerms, MaxPerms)
    /\ after \in SeqsUpTo(DiffPerms, MaxPerms)
    /\ diffOut = NoDiffOut
    /\ IdleEquals
    /\ IdleParent
    /\ IdleUpdate
    /\ IdleContact
    /\ IdleRestore
    /\ IdleConsume
    /\ IdleCollMeta
    /\ IdleFilter
    /\ IdleCaches
    /\ IdleRestoreRun
    /\ IdleDrives

CallDiffPermissions ==
    /\ ~diffOut.called
    /\ LET d == DiffPermissions(before, after)
       IN diffOut' = [called |-> TRUE, added |-> d.added, removed |-> d.removed,
                      before |-> d.before, after |-> d.after]
    /\ UNCHANGED <<before, after, eqVars, parentVars, upVars, rcVars, rpVars, crVars, restVars>>

NextDiff == CallDiffPermissions

SpecDiff == InitDiff /\ [][NextDiff]_vars

(***************************************************************************)
(* Properties of Permission.Equals (SpecEquals).                           *)
(***************************************************************************)
RoleSet(p) == {p.Roles[k] : k \in 1..Len(p.Roles)}

\* C6: Permission.Equals is symmetric and reflexive: for all permissions a
\* and b, a.Equals(b) = b.Equals(a), and a.Equals(a) is true.
C6_EqualsSymmetricReflexive ==
    eqOut.called => (eqOut.ab = eqOut.ba /\ eqOut.aa)

\* C7: Equals ignores an identifier field (entity id, email) that is empty
\* on either side, requires every identifier field that is non-empty on both
\* sides to match exactly, requires equal role sets, and is never true when
\* no identifier field is non-empty on both sides.
C7_EqualsIdentifierRule ==
    eqOut.called =>
        (eqOut.ab <=>
            /\ (recv.EntityID # "" /\ other.EntityID # ""
                    => recv.EntityID = other.EntityID)
            /\ (recv.Email # "" /\ other.Email # "" => recv.Email = other.Email)
            /\ \/ recv.EntityID # "" /\ other.EntityID # ""
               \/ recv.Email # "" /\ other.Email # ""
            /\ RoleSet(recv) = RoleSet(other))

\* C8: two permissions whose identifiers are the same and not both empty and
\* whose roles are equal as sets are Equals, whatever the order and the
\* repetition of the roles in either sequence.
C8_EqualsRoleSets ==
    (/\ eqOut.called
     /\ recv.EntityID = other.EntityID
     /\ recv.Email = other.Email
     /\ RoleSet(recv) = RoleSet(other)) => eqOut.ab

(***************************************************************************)
(* Properties of DiffPermissions (SpecDiff).  An element of after matches  *)
(* an element of before when cp.Equals(pp) holds with the element of after *)
(* as the receiver, which is how DiffPermissions applies Equals in both of *)
(* its loops.                                                              *)
(***************************************************************************)
Matches(cp, pp) == Equals(cp, pp).eq

Range(s) == {s[k] : k \in 1..Len(s)}

FolderNames == {"a", "b"}

PermA == Permission("p1", <<"read">>, "", "U1", GV2User)
PermB == Permission("p2", <<"write">>, "", "U2", GV2User)

MetaChoices ==
    {Metadata(SharingModeCustom, <<PermA>>), Metadata(SharingModeCustom, <<PermB>>),
     EmptyMetadata, Metadata(SharingModeInherited, <<>>)}

\* The ancestor of p that has n elements.
Prefix(p, n) == SubSeq(p, 1, n)

Ancestors(p) == {Prefix(p, n) : n \in Len(DriveRoot)..(Len(p) - 1)}

InitParent ==
    /\ originDir \in {DriveRoot \o f : f \in SeqsUpTo(FolderNames, MaxDepth)}
    /\ \E D \in SUBSET Ancestors(originDir) : parentMetas \in [D -> MetaChoices]
    /\ parentOut = NoParentOut
    /\ IdleEquals
    /\ IdleDiff
    /\ IdleUpdate
    /\ IdleContact
    /\ IdleRestore
    /\ IdleConsume
    /\ IdleCollMeta
    /\ IdleFilter
    /\ IdleCaches
    /\ IdleRestoreRun
    /\ IdleDrives

CallComputeParentPermissions ==
    /\ ~parentOut.called
    /\ LET r == computeParentPermissions(originDir, parentMetas)
       IN parentOut' = [called |-> TRUE, meta |-> r.meta, err |-> r.err,
                        lookups |-> r.lookups]
    /\ UNCHANGED <<originDir, parentMetas>>
    /\ UNCHANGED <<eqVars, diffVars, upVars, rcVars, rpVars, crVars, restVars>>

NextParent == CallComputeParentPermissions

SpecParent == InitParent /\ [][NextParent]_vars

(***************************************************************************)
(* Properties of computeParentPermissions (SpecParent).                    *)
(***************************************************************************)
\* The ancestors of originDir from its parent up to the one with n elements,
\* nearest first.
WalkDownTo(n) == [k \in 1..(Len(originDir) - n) |-> Prefix(originDir, Len(originDir) - k)]

IsInherited(n) ==
    /\ Prefix(originDir, n) \in DOMAIN parentMetas
    /\ parentMetas[Prefix(originDir, n)].SharingMode = SharingModeInherited

IsCustom(n) ==
    /\ Prefix(originDir, n) \in DOMAIN parentMetas
    /\ parentMetas[Prefix(originDir, n)].SharingMode = SharingModeCustom

\* C9: the walk goes strictly upward from the parent of the path and returns
\* the metadata of the nearest ancestor whose sharing mode is custom; the
\* inherited ancestors below it are passed over, the ancestors above it are
\* never consulted.
C9_NearestCustomAncestor ==
    parentOut.called =>
        \A n \in (Len(DriveRoot) + 1)..(Len(originDir) - 1) :
            (IsCustom(n) /\ \A m \in (n + 1)..(Len(originDir) - 1) : IsInherited(m))
                => /\ parentOut.err = "nil"
                   /\ parentOut.meta = parentMetas[Prefix(originDir, n)]
                   /\ parentOut.lookups = WalkDownTo(n)

C9_Witness ==
    /\ parentOut.called
    /\ Len(originDir) = Len(DriveRoot) + 3
    /\ IsInherited(Len(DriveRoot) + 2)
    /\ IsCustom(Len(DriveRoot) + 1)
    /\ IsCustom(Len(DriveRoot))
    /\ parentMetas[DriveRoot] # parentMetas[Prefix(originDir, Len(DriveRoot) + 1)]
    /\ parentOut.meta = Metadata(SharingModeCustom, <<PermA>>)

\* C10: when the walk reaches the drive root without meeting a custom
\* ancestor, it returns an empty baseline and no error, and does not look
\* the root up in the cache.
C10_RootGivesEmptyBaseline ==
    (/\ parentOut.called
     /\ Len(originDir) > Len(DriveRoot)
     /\ \A m \in (Len(DriveRoot) + 1)..(Len(originDir) - 1) : IsInherited(m))
        => /\ parentOut.err = "nil"
           /\ parentOut.meta = EmptyMetadata
           /\ parentOut.lookups = WalkDownTo(Len(DriveRoot) + 1)
           /\ \A k \in 1..Len(parentOut.lookups) : parentOut.lookups[k] # DriveRoot

C10_Witness ==
    /\ parentOut.called
    /\ Len(originDir) = Len(DriveRoot) + 3
    /\ IsInherited(Len(DriveRoot) + 2)
    /\ IsInherited(Len(DriveRoot) + 1)
    /\ DriveRoot \in DOMAIN parentMetas
    /\ parentMetas[DriveRoot] = Metadata(SharingModeCustom, <<PermA>>)
    /\ parentOut.meta = EmptyMetadata
    /\ parentOut.err = "nil"

\* C11: when the walk reaches an ancestor below the drive root that has no
\* entry in the cache, every ancestor passed before it being inherited, the
\* call fails with the missing-parent-metadata error and returns an empty
\* Metadata; the missing ancestor is the last key it looked up.
C11_MissingParentMetadata ==
    parentOut.called =>
        \A n \in (Len(DriveRoot) + 1)..(Len(originDir) - 1) :
            (/\ Prefix(originDir, n) \notin DOMAIN parentMetas
             /\ \A m \in (n + 1)..(Len(originDir) - 1) : IsInherited(m))
                => /\ parentOut.err = "no metadata found for parent folder"
                   /\ parentOut.meta = EmptyMetadata
                   /\ parentOut.lookups = WalkDownTo(n)

C11_Witness ==
    /\ parentOut.called
    /\ Len(originDir) = Len(DriveRoot) + 3
    /\ IsInherited(Len(DriveRoot) + 2)
    /\ Prefix(originDir, Len(DriveRoot) + 1) \notin DOMAIN parentMetas
    /\ IsCustom(Len(DriveRoot))
    /\ parentOut.err = "no metadata found for parent folder"
    /\ parentOut.meta = EmptyMetadata

(***************************************************************************)
(* SpecUpdate: one call of UpdatePermissions(permAdded, permRemoved,       *)
(* oldPermIDToNewID).  Every remote call may fail.  The cache knows the    *)
(* new id of every permission that may be removed, or of all but p1.       *)
(***************************************************************************)
\* The id the service gave the permission that the backup knows as k.
ServiceID(k) == <<"srv", CASE k = "p1" -> 1 [] k = "p2" -> 2 [] OTHER -> 0>>

RemovablePerms ==
    {Permission("p1", <<"read">>, "", "U1", GV2User),
     Permission("p2", <<"write">>, "", "U2", GV2User),
     Permission("", <<"read">>, "a@x", "", GV2User)}

AddablePerms ==
    {Permission("p1", <<"read">>, "", "U1", GV2User),
     Permission("p2", <<"owner", "write">>, "", "U2", GV2User),
     Permission("p3", <<"owner">>, "", "U1", GV2User),
     Permission("p4", <<"read">>, "", "4", GV2SiteGroup),
     Permission("", <<"read">>, "a@x", "", GV2User),
     Permission("", <<"write">>, "b@x", "", GV2User)}

InitUpdate ==
    /\ permAdded \in SeqsUpTo(AddablePerms, MaxPerms)
    /\ permRemoved \in SeqsUpTo(RemovablePerms, MaxPerms)
    /\ \E D \in {{"p1", "p2", ""}, {"p2", ""}} :
          oldPermIDToNewID = [k \in D |-> ServiceID(k)]
    /\ upPc = "removing"
    /\ upIdx = 1
    /\ upErr = "nil"
    /\ upCalls = <<>>
    /\ upNextID = 1
    /\ IdleEquals
    /\ IdleDiff
    /\ IdleParent
    /\ IdleContact
    /\ IdleRestore
    /\ IdleConsume
    /\ IdleCollMeta
    /\ IdleFilter
    /\ IdleCaches
    /\ IdleRestoreRun
    /\ IdleDrives

NextUpdate == UpdatePermissions

SpecUpdate == InitUpdate /\ [][NextUpdate]_vars

(***************************************************************************)
(* Properties of UpdatePermissions (SpecUpdate).                           *)
(***************************************************************************)
\* C1: removals come before additions: every DeleteItemPermission call is
\* issued before any PostItemPermissionUpdate call, and no addition is
\* issued once a removal has failed.
C1_RemoveBeforeAdd ==
    \A i \in 1..Len(upCalls) : \A j \in 1..Len(upCalls) :
        /\ (upCalls[i].op = "post" /\ upCalls[j].op = "delete") => j < i
        /\ (upCalls[i].op = "delete" /\ ~upCalls[i].ok) => upCalls[j].op # "post"

C1_Witness ==
    /\ upPc = "done"
    /\ upErr = "nil"
    /\ Len(upCalls) = 4
    /\ upCalls[2].op = "delete"
    /\ upCalls[3].op = "post"

(***************************************************************************)
(* SpecRestore: one call of RestorePermissions for item1, which lies in    *)
(* the drive root or in a folder below it.  caches.ParentDirToMeta holds   *)
(* any part of the item's ancestors; caches.OldPermIDToNewID knows the new *)
(* id of every permission of the cached folders, or of all but p1.         *)
(***************************************************************************)
ItemName == "item1"

PermOwner == Permission("p3", <<"owner">>, "", "U1", GV2User)

ItemMetas ==
    {Metadata(SharingModeInherited, <<>>),
     Metadata(SharingModeCustom, <<>>),
     Metadata(SharingModeCustom, <<PermA>>),
     Metadata(SharingModeCustom, <<PermB>>),
     Metadata(SharingModeCustom, <<PermA, PermB>>),
     Metadata(SharingModeCustom, <<PermOwner>>)}

InitRestore ==
    /\ originDir \in {DriveRoot \o f \o <<ItemName>> :
                          f \in SeqsUpTo(FolderNames, MaxDepth - 1)}
    /\ \E D \in SUBSET Ancestors(originDir) : parentMetas \in [D -> MetaChoices]
    /\ parentOut = NoParentOut
    /\ current \in ItemMetas
    /\ rpPc = "start"
    /\ rpErr = "nil"
    /\ \E D \in {{"p1", "p2"}, {"p2"}} : oldPermIDToNewID = [k \in D |-> ServiceID(k)]
    /\ permAdded = <<>>
    /\ permRemoved = <<>>
    /\ upPc = "done"
    /\ upIdx = 1
    /\ upErr = "nil"
    /\ upCalls = <<>>
    /\ upNextID = 1
    /\ IdleEquals
    /\ IdleDiff
    /\ IdleContact
    /\ IdleConsume
    /\ IdleCollMeta
    /\ IdleFilter
    /\ IdleCaches
    /\ IdleRestoreRun
    /\ IdleDrives

NextRestore == RestorePermissions

SpecRestore == InitRestore /\ [][NextRestore]_vars

(***************************************************************************)
(* Properties of RestorePermissions (SpecRestore).                         *)
(***************************************************************************)
\* C12: RestorePermissions of an item whose own sharing mode is inherited
\* returns nil in one step, having issued no DeleteItemPermission and no
\* PostItemPermissionUpdate call, without calling computeParentPermissions
\* and leaving both caches as they were.
C12_InheritedItemSkipped ==
    [][(rpPc = "start" /\ current.SharingMode = SharingModeInherited) =>
          /\ rpPc' = "done"
          /\ rpErr' = "nil"
          /\ upCalls' = <<>>
          /\ ~parentOut'.called
          /\ parentMetas' = parentMetas
          /\ oldPermIDToNewID' = oldPermIDToNewID]_vars

C12_Witness ==
    /\ rpPc = "done"
    /\ current.SharingMode = SharingModeInherited
    /\ Len(originDir) = Len(DriveRoot) + 2
    /\ IsCustom(Len(DriveRoot) + 1)
    /\ parentMetas[Prefix(originDir, Len(DriveRoot) + 1)].Permissions = <<PermA>>
    /\ rpErr = "nil"
    /\ upCalls = <<>>

\* The scenario of C13: item1 lies in folder a of the drive root, a is cached
\* with the custom permissions [{read, U1}], and item1 has the custom
\* permissions [{read, U1}, {write, U2}].
C13_Scenario ==
    /\ originDir = DriveRoot \o <<"a", ItemName>>
    /\ Prefix(originDir, Len(DriveRoot) + 1) \in DOMAIN parentMetas
    /\ parentMetas[Prefix(originDir, Len(DriveRoot) + 1)] =
          Metadata(SharingModeCustom, <<PermA>>)
    /\ current = Metadata(SharingModeCustom, <<PermA, PermB>>)

\* C13: in that scenario RestorePermissions issues exactly one
\* PostItemPermissionUpdate call, for the roles [write] and the recipient
\* U2, and no DeleteItemPermission call.
C13_EndToEndDelta ==
    C13_Scenario =>
        /\ \A i \in 1..Len(upCalls) : upCalls[i].op # "delete"
        /\ rpPc = "done" =>
              /\ Len(upCalls) = 1
              /\ upCalls[1].op = "post"
              /\ upCalls[1].roles = <<"write">>
              /\ upCalls[1].rec = [kind |-> "objectId", val |-> "U2"]

C13_Witness ==
    /\ C13_Scenario
    /\ rpPc = "done"
    /\ rpErr = "nil"
    /\ Len(upCalls) = 1
    /\ upCalls[1].ok
    /\ "p2" \in DOMAIN oldPermIDToNewID
    /\ oldPermIDToNewID["p2"] = <<"new", 1>>

(***************************************************************************)
(* SpecContact: one call of restoreContact(body, collisionMap,             *)
(* onCollision) against a contactRestoreMock.  The items the collision map *)
(* knows are at the destination.                                           *)
(***************************************************************************)
CollisionKeys == {"k1", "k2"}

\* The remote item that holds collision key k before the restore.
ExistingID(k) == IF k = "k1" THEN "smarf" ELSE "other"

CollisionPolicies == {"skip", "copy", "replace"}

InitContact ==
    /\ collisionKey \in CollisionKeys
    /\ \E D \in SUBSET CollisionKeys : collisionMap = [k \in D |-> ExistingID(k)]
    /\ onCollision \in CollisionPolicies
    /\ \E pe \in BOOLEAN, de \in BOOLEAN : apiMock = ContactRestoreMock(pe, de)
    /\ rcCollision = NoCollision
    /\ rcPc = "start"
    /\ rcErr = "nil"
    /\ remote = {[id |-> collisionMap[k], key |-> k] : k \in DOMAIN collisionMap}
    /\ rcCalls = <<>>
    /\ IdleEquals
    /\ IdleDiff
    /\ IdleParent
    /\ IdleUpdate
    /\ IdleRestore
    /\ IdleConsume
    /\ IdleCollMeta
    /\ IdleFilter
    /\ IdleCaches
    /\ IdleRestoreRun
    /\ IdleDrives

NextContact == restoreContact

SpecContact == InitContact /\ [][NextContact]_vars

(***************************************************************************)
(* Properties of restoreContact (SpecContact).                             *)
(***************************************************************************)
\* C2: the collision policy table, with a contactRestorer whose calls
\* succeed.  Key absent: posted, nothing deleted, no error, whatever the
\* policy.  Key present and Skip: the item-already-exists conflict error,
\* no post, no delete.  Present and Copy: posted, nothing deleted, no error.
\* Present and Replace: posted, the old item deleted, no error.
C2_CollisionPolicyTable ==
    (rcPc = "done" /\ ~apiMock.postItemErr /\ ~apiMock.deleteItemErr) =>
        /\ ~rcCollision.ok =>
              apiMock.calledPost /\ ~apiMock.calledDelete /\ rcErr = "nil"
        /\ (rcCollision.ok /\ onCollision = "skip") =>
              /\ ~apiMock.calledPost
              /\ ~apiMock.calledDelete
              /\ rcErr = "ErrItemAlreadyExistsConflict"
        /\ (rcCollision.ok /\ onCollision = "copy") =>
              apiMock.calledPost /\ ~apiMock.calledDelete /\ rcErr = "nil"
        /\ (rcCollision.ok /\ onCollision = "replace") =>
              /\ apiMock.calledPost
              /\ apiMock.calledDelete
              /\ rcCalls = <<<<"post", NewItemID>>,
                           <<"delete", ExistingID(collisionKey)>>>>
              /\ rcErr = "nil"

C2_Witness ==
    /\ rcPc = "done"
    /\ ~apiMock.postItemErr
    /\ ~apiMock.deleteItemErr
    /\ rcCollision.ok
    /\ onCollision = "replace"
    /\ apiMock.calledDelete

\* The copies of the restored item at the destination.
Copies == {x \in remote : x.key = collisionKey}

\* The collision map held an entry for the item when restoreContact began.
HadCollision ==
    IF rcPc = "start" THEN collisionKey \in DOMAIN collisionMap ELSE rcCollision.ok

\* C3: under Replace with an existing collision entry the post of the new
\* item comes before the delete of the old one, the delete is never issued
\* when the post failed, and at every point at least one copy of the item
\* exists remotely.
C3_CreateBeforeDelete ==
    (onCollision = "replace" /\ HadCollision) =>
        /\ Copies # {}
        /\ apiMock.calledDelete => (apiMock.calledPost /\ ~apiMock.postItemErr)
        /\ \A i \in 1..Len(rcCalls) :
              rcCalls[i][1] = "delete" => (i > 1 /\ rcCalls[1][1] = "post")

C3_Witness ==
    /\ onCollision = "replace"
    /\ rcCollision.ok
    /\ rcPc = "done"
    /\ apiMock.calledDelete
    /\ ~apiMock.deleteItemErr
    /\ Copies = {[id |-> NewItemID, key |-> collisionKey]}

\* The restore is over, the policy was Replace, the item collided and the
\* post of the new item succeeded.
ReplacedAfterPost ==
    /\ rcPc = "done"
    /\ onCollision = "replace"
    /\ rcCollision.ok
    /\ ~apiMock.postItemErr

\* C19: under Replace with an existing collision entry, when the delete of
\* the old item fails after the new item was posted, restoreContact returns
\* the delete error, the new item stays at the destination, and no call
\* follows the failed delete: the new item is not deleted in return.
C19_DeleteFailureNoRollback ==
    (ReplacedAfterPost /\ apiMock.deleteItemErr) =>
        /\ rcErr = "delete failed"
        /\ [id |-> NewItemID, key |-> collisionKey] \in remote
        /\ [id |-> ExistingID(collisionKey), key |-> collisionKey] \in remote
        /\ rcCalls = <<<<"post", NewItemID>>, <<"delete", ExistingID(collisionKey)>>>>

C19_Witness ==
    /\ ReplacedAfterPost
    /\ apiMock.deleteItemErr
    /\ apiMock.calledDelete
    /\ rcErr = "delete failed"
    /\ Cardinality(Copies) = 2

PermReadWrite == Permission("p4", <<"write", "read">>, "", "U1", GV2User)

FolderMetas ==
    {Metadata(SharingModeInherited, <<>>),
     Metadata(SharingModeCustom, <<PermA>>),
     Metadata(SharingModeCustom, <<PermA, PermB>>),
     Metadata(SharingModeCustom, <<PermOwner>>),
     Metadata(SharingModeCustom, <<PermReadWrite>>)}

Target(kind, path, meta) == [kind |-> kind, path |-> path, meta |-> meta]

FolderA == DriveRoot \o <<"a">>

\* The targets of a run, in an order in which folder a comes before its item.
RunsOf(fm, im) ==
    LET f == Target("folder", FolderA, fm)
        i == Target("item", FolderA \o <<ItemName>>, im)
        b == Target("item", DriveRoot \o <<"b", ItemName>>,
                    Metadata(SharingModeCustom, <<PermA>>))
    IN {<<f, i>>, <<b, f, i>>, <<f, b, i>>, <<f, i, b>>, <<b, i>>}

InitRestoreRun ==
    /\ \E fm \in FolderMetas, im \in ItemMetas : rrQueue \in RunsOf(fm, im)
    /\ rrCur = [target |-> NoTarget, mapBefore |-> <<>>]
    /\ rrPc = "next"
    /\ rrLog = <<>>
    /\ IdleParent
    /\ IdleUpdate
    /\ IdleRestore
    /\ IdleEquals
    /\ IdleDiff
    /\ IdleContact
    /\ IdleConsume
    /\ IdleCollMeta
    /\ IdleFilter
    /\ IdleCaches
    /\ IdleDrives

\* The caller comes to the next target and calls RestorePermissions.
RRBegin ==
    /\ rrPc = "next"
    /\ rrQueue # <<>>
    /\ LET t == Head(rrQueue)
       IN /\ rrCur' = [target |-> t, mapBefore |-> oldPermIDToNewID]
          /\ originDir' = t.path
          /\ current' = t.meta
          /\ parentMetas' =
                IF t.kind = "folder"
                THEN [k \in DOMAIN parentMetas \cup {t.path} |->
                         IF k = t.path THEN t.meta ELSE parentMetas[k]]
                ELSE parentMetas
    /\ rrQueue' = Tail(rrQueue)
    /\ rrPc' = "restoring"
    /\ parentOut' = NoParentOut
    /\ rpPc' = "start"
    /\ rpErr' = "nil"
    /\ permAdded' = <<>>
    /\ permRemoved' = <<>>
    /\ upPc' = "done"
    /\ upIdx' = 1
    /\ upErr' = "nil"
    /\ upCalls' = <<>>
    /\ UNCHANGED <<oldPermIDToNewID, upNextID, rrLog>>
    /\ UNCHANGED <<eqVars, diffVars, rcVars, crVars, cmVars, fpVars, ccVars, gdVars>>

\* RestorePermissions has returned: the caller notes the outcome and goes on.
RREnd ==
    /\ rrPc = "restoring"
    /\ rpPc = "done"
    /\ rrLog' = Append(rrLog, [target |-> rrCur.target,
                               parentErr |-> parentOut.err,
                               err |-> rpErr,
                               calls |-> upCalls,
                               mapBefore |-> rrCur.mapBefore,
                               mapAfter |-> oldPermIDToNewID,
                               cacheAfter |-> parentMetas])
    /\ rrPc' = "next"
    /\ UNCHANGED <<rrQueue, rrCur>>
    /\ UNCHANGED <<eqVars, diffVars, parentVars, upVars, rcVars, rpVars, crVars>>
    /\ UNCHANGED <<cmVars, fpVars, ccVars, gdVars>>

NextRestoreRun ==
    \/ RRBegin
    \/ RestorePermissions
    \/ RREnd

SpecRestoreRun == InitRestoreRun /\ [][NextRestoreRun]_vars

(***************************************************************************)
(* Properties of a run of RestorePermissions calls (SpecRestoreRun).       *)
(***************************************************************************)
\* The error of an ancestor walk that met a folder without cached metadata.
missingParent(err) == err = "no metadata found for parent folder"

\* C25: when the ancestor walk of a target meets a folder whose metadata is
\* not in the cache, RestorePermissions returns an error for that target,
\* issues no DeleteItemPermission and no PostItemPermissionUpdate call and
\* leaves the old-to-new permission id map as it was; the targets after it
\* are still restored.
C25_MissingParentAbortsItemOnly ==
    /\ \A n \in 1..Len(rrLog) :
          missingParent(rrLog[n].parentErr) =>
              /\ rrLog[n].err # "nil"
              /\ rrLog[n].calls = <<>>
              /\ rrLog[n].mapAfter = rrLog[n].mapBefore
    /\ (rrPc = "restoring" /\ missingParent(parentOut.err)) =>
          /\ rpPc = "done"
          /\ rpErr # "nil"
          /\ upCalls = <<>>
          /\ oldPermIDToNewID = rrCur.mapBefore
    /\ (rrPc = "next" /\ rrQueue # <<>>) => ENABLED RRBegin

C25_Witness ==
    /\ Len(rrLog) = 3
    /\ missingParent(rrLog[1].parentErr)
    /\ rrLog[1].err = "parent permissions"
    /\ rrLog[3].err = "nil"
    /\ Len(rrLog[3].calls) = 2

\* C26: while RestorePermissions is at work on a target, with
\* computeParentPermissions and UpdatePermissions, no entry of the
\* parent-path-to-metadata cache is added, removed or changed.
C26_ParentCacheReadOnly == [][rrPc = "restoring" => UNCHANGED parentMetas]_vars

\* C30: in a run with one cache, when the custom permissions of a folder
\* were applied by a RestorePermissions call that returned no error and an
\* item below the folder is restored after it, the item's UpdatePermissions
\* does not fail with "no new permission id".
C30_RemapCoversBaseline ==
    \A m \in 1..Len(rrLog) : \A n \in (m + 1)..Len(rrLog) :
        (/\ rrLog[m].target.kind = "folder"
         /\ rrLog[m].target.meta.SharingMode = SharingModeCustom
         /\ rrLog[m].err = "nil"
         /\ rrLog[n].target.kind = "item"
         /\ IsProperPrefix(rrLog[m].target.path, rrLog[n].target.path))
            => rrLog[n].err # "no new permission id"

(***************************************************************************)
(* SpecCollMeta: one call of getCollectionMetadata for a collection whose  *)
(* path is the drive root or a folder below it, with any backup version up *)
(* to MaxVersion.  The cache holds any part of the path and its ancestors; *)
(* the collection holds the record named after its folder, the record      *)
(* named by the suffix alone, both or neither.                             *)
(***************************************************************************)
MaxVersion == 6

NamedRecord == Metadata(SharingModeCustom, <<PermA>>)
SuffixRecord == Metadata(SharingModeCustom, <<PermB>>)

CachedMetas == {Metadata(SharingModeCustom, <<PermA, PermB>>),
                Metadata(SharingModeInherited, <<>>)}

RecordsOf(fullPath) ==
    {[n \in D |-> IF n = DirMetaFileSuffix THEN SuffixRecord ELSE NamedRecord] :
        D \in SUBSET {fullPath[Len(fullPath)] \o DirMetaFileSuffix, DirMetaFileSuffix}}

InitCollMeta ==
    /\ originDir \in {DriveRoot \o f : f \in SeqsUpTo(FolderNames, MaxDepth - 1)}
    /\ \E D \in SUBSET (Ancestors(originDir) \cup {originDir}) :
          parentMetas \in [D -> CachedMetas]
    /\ parentOut = NoParentOut
    /\ backupVersion \in 0..MaxVersion
    /\ restorePerms \in BOOLEAN
    /\ dcFiles \in RecordsOf(originDir)
    /\ cmOut = NoCollMetaOut
    /\ gpOut = NoParentMetaOut
    /\ IdleEquals
    /\ IdleDiff
    /\ IdleUpdate
    /\ IdleContact
    /\ IdleRestore
    /\ IdleConsume
    /\ IdleFilter
    /\ IdleCaches
    /\ IdleRestoreRun
    /\ IdleDrives

CallGetCollectionMetadata ==
    /\ ~cmOut.called
    /\ LET r == getCollectionMetadata(originDir, dcFiles, parentMetas, backupVersion,
                                      restorePerms)
       IN cmOut' = [called |-> TRUE, meta |-> r.meta, err |-> r.err, read |-> r.read]
    /\ UNCHANGED <<backupVersion, restorePerms, dcFiles, gpOut>>
    /\ UNCHANGED <<eqVars, diffVars, parentVars, upVars, rcVars, rpVars, crVars>>
    /\ UNCHANGED <<fpVars, ccVars, rrVars, gdVars>>

NextCollMeta == CallGetCollectionMetadata

SpecCollMeta == InitCollMeta /\ [][NextCollMeta]_vars

(***************************************************************************)
(* Properties of getCollectionMetadata (SpecCollMeta).                     *)
(***************************************************************************)
\* The collection is the drive root.
cmAtRoot == Len(originDir) = Len(DriveRoot)

\* The name of the record of the folder: its last folder name and the suffix.
cmNamed == originDir[Len(originDir)] \o DirMetaFileSuffix

\* What reading the record called name gives.
cmReadOf(name) ==
    /\ cmOut.read = <<name>>
    /\ IF name \in DOMAIN dcFiles
       THEN cmOut.err = "nil" /\ cmOut.meta = dcFiles[name]
       ELSE cmOut.err # "nil" /\ cmOut.meta = EmptyMetadata

\* C21: getCollectionMetadata returns an empty Metadata and no error without
\* reading a record when permission restore is off, when the version is
\* below the data-and-meta-files version, or when the collection is the
\* drive root; from the directory-includes-permissions version on it reads
\* the record named by the last folder name and the suffix below the
\* name-less version and the record named by the suffix alone from that
\* version on, and a read that fails gives an error and an empty Metadata.
C21_VersionGating ==
    cmOut.called =>
        /\ (~restorePerms \/ backupVersion < OneDrive1DataAndMetaFiles \/ cmAtRoot)
              => cmOut = [called |-> TRUE, meta |-> EmptyMetadata, err |-> "nil",
                          read |-> <<>>]
        /\ (/\ restorePerms
            /\ ~cmAtRoot
            /\ backupVersion >= OneDrive4DirIncludesPermissions)
              => IF backupVersion < OneDrive5DirMetaNoName
                 THEN cmReadOf(cmNamed)
                 ELSE cmReadOf(DirMetaFileSuffix)

C21_Witness ==
    /\ cmOut.called
    /\ restorePerms
    /\ backupVersion = OneDrive4DirIncludesPermissions
    /\ Len(originDir) = Len(DriveRoot) + 2
    /\ DOMAIN dcFiles = {cmNamed, DirMetaFileSuffix}
    /\ cmOut.meta = NamedRecord
    /\ cmOut.read = <<cmNamed>>

\* The ancestors of the collection that are in the cache.
cmCachedAncestors == {p \in Ancestors(originDir) : p \in DOMAIN parentMetas}

\* The nearest of them: the longest.
cmNearestCached ==
    CHOOSE p \in cmCachedAncestors : \A q \in cmCachedAncestors : Len(q) <= Len(p)

\* C22: for a version from the data-and-meta-files version up to, not
\* including, the directory-includes-permissions version, the metadata of a
\* collection that is not the drive root is the cached metadata of its
\* nearest ancestor that is in the cache.
C22_InheritsNearestAncestor ==
    (/\ cmOut.called
     /\ restorePerms
     /\ backupVersion >= OneDrive1DataAndMetaFiles
     /\ backupVersion < OneDrive4DirIncludesPermissions
     /\ ~cmAtRoot
     /\ cmCachedAncestors # {})
        => /\ cmOut.err = "nil"
           /\ cmOut.meta = parentMetas[cmNearestCached]

(***************************************************************************)
(* FilterPermissions.  A models.Permissionable is a record of its id, its  *)
(* roles and its GrantedToV2; the grantee is absent (nil) or holds one     *)
(* field for each kind of principal, each null (the empty sequence) or a   *)
(* one-element sequence of the principal's id, "" for a null id pointer.  *)
(***************************************************************************)
\* The cases of the switch, in order.
GV2Order == <<GV2User, GV2SiteUser, GV2Group, GV2SiteGroup, GV2App, GV2Device>>

NoPrincipal == <<>>

Permissionable(id, roles, granted, who) ==
    [id |-> id, roles |-> roles, granted |-> granted, who |-> who]

\* The first case of the switch from position i on whose principal is not
\* null; 0 for the default case.
RECURSIVE firstPrincipalFrom(_, _)
firstPrincipalFrom(who, i) ==
    IF i > Len(GV2Order) THEN 0
    ELSE IF who[GV2Order[i]] # NoPrincipal THEN i
    ELSE firstPrincipalFrom(who, i + 1)

hasEntityAlways(entityID) == TRUE

\* if entityID == "" { continue }
hasEntity(entityID) == entityID # ""

RECURSIVE FilterLoop(_, _, _)
FilterLoop(perms, i, up) ==
    IF i > Len(perms) THEN up
    ELSE LET p == perms[i]
             c == firstPrincipalFrom(p.who, 1)
             gv2t == IF c = 0 THEN "" ELSE GV2Order[c]
             entityID == IF c = 0 THEN "" ELSE p.who[GV2Order[c]][1]
         IN IF ~p.granted THEN FilterLoop(perms, i + 1, up)
            ELSE IF ~hasEntity(entityID) THEN FilterLoop(perms, i + 1, up)
            ELSE FilterLoop(perms, i + 1,
                            Append(up, Permission(p.id, p.roles, "", entityID, gv2t)))

FilterPermissions(perms) == FilterLoop(perms, 1, <<>>)

(***************************************************************************)
(* SpecFilter: one call of FilterPermissions on up to MaxPerms entries.    *)
(* An entry has no grantee, or a grantee with at most two principals that  *)
(* are not null, each with an empty or a non-empty id.  The i-th entry has *)
(* the i-th id.                                                            *)
(***************************************************************************)
PrincipalChoices == {NoPrincipal, <<"">>, <<"U1">>}

GV2Kinds == {GV2Order[i] : i \in 1..Len(GV2Order)}

\* The positions in GV2Order of the principals of w that are not null.
presentIn(w) == {i \in 1..Len(GV2Order) : w[GV2Order[i]] # NoPrincipal}

Grantees == {w \in [GV2Kinds -> PrincipalChoices] : Cardinality(presentIn(w)) <= 2}

NoGrantee == [k \in GV2Kinds |-> NoPrincipal]

PermissionableID(i) == IF i = 1 THEN "p1" ELSE IF i = 2 THEN "p2" ELSE "p3"

GrantedToV2Choices ==
    {[granted |-> TRUE, who |-> w] : w \in Grantees}
        \cup {[granted |-> FALSE, who |-> NoGrantee]}

InitFilter ==
    /\ \E n \in 0..MaxPerms :
          \E g \in [1..n -> GrantedToV2Choices] :
              fpIn = [i \in 1..n |-> Permissionable(PermissionableID(i), <<"read">>,
                                                    g[i].granted, g[i].who)]
    /\ fpOut = NoFilterOut
    /\ IdleEquals
    /\ IdleDiff
    /\ IdleParent
    /\ IdleUpdate
    /\ IdleContact
    /\ IdleRestore
    /\ IdleConsume
    /\ IdleCollMeta
    /\ IdleCaches
    /\ IdleRestoreRun
    /\ IdleDrives

CallFilterPermissions ==
    /\ ~fpOut.called
    /\ fpOut' = [called |-> TRUE, up |-> FilterPermissions(fpIn)]
    /\ UNCHANGED fpIn
    /\ UNCHANGED <<eqVars, diffVars, parentVars, upVars, rcVars, rpVars, crVars>>
    /\ UNCHANGED <<cmVars, ccVars, rrVars, gdVars>>

NextFilter == CallFilterPermissions

SpecFilter == InitFilter /\ [][NextFilter]_vars

(***************************************************************************)
(* Properties of FilterPermissions (SpecFilter).                           *)
(***************************************************************************)
\* The kinds of principal of entry p that are not null.
fpPresent(p) == {i \in 1..Len(GV2Order) : p.who[GV2Order[i]] # NoPrincipal}

\* The first of them in the order of precedence.
fpFirst(p) == CHOOSE i \in fpPresent(p) : \A j \in fpPresent(p) : i <= j

\* Entry p is kept: it has a grantee whose first principal that is not null
\* has a non-empty id.
fpKept(p) ==
    /\ p.granted
    /\ fpPresent(p) # {}
    /\ p.who[GV2Order[fpFirst(p)]][1] # ""

\* The positions of the entries kept, in input order.
RECURSIVE fpKeptFrom(_)
fpKeptFrom(i) ==
    IF i > Len(fpIn) THEN <<>>
    ELSE IF fpKept(fpIn[i]) THEN <<i>> \o fpKeptFrom(i + 1)
    ELSE fpKeptFrom(i + 1)

\* C23: FilterPermissions returns, in input order, one Permission for each
\* entry that has a grantee whose first principal that is not null, in the
\* order user, site_user, group, site_group, application, device, has a
\* non-empty id, with the type and the id of that principal; every other
\* entry is dropped, and every Permission returned has a non-empty EntityID.
C23_FilterPermissions ==
    fpOut.called =>
        LET kept == fpKeptFrom(1)
        IN /\ Len(fpOut.up) = Len(kept)
           /\ \A k \in 1..Len(kept) :
                 LET p == fpIn[kept[k]]
                     t == GV2Order[fpFirst(p)]
                 IN /\ fpOut.up[k].ID = p.id
                    /\ fpOut.up[k].EntityType = t
                    /\ fpOut.up[k].EntityID = p.who[t][1]
           /\ \A k \in 1..Len(fpOut.up) : fpOut.up[k].EntityID # ""

C23_Witness ==
    /\ fpOut.called
    /\ Len(fpIn) = 2
    /\ ~fpIn[1].granted
    /\ fpIn[2].granted
    /\ fpIn[2].who[GV2User] = NoPrincipal
    /\ fpIn[2].who[GV2SiteUser] = <<"U1">>
    /\ fpIn[2].who[GV2Group] = <<"">>
    /\ Len(fpOut.up) = 1
    /\ fpOut.up[1].EntityType = GV2SiteUser

(***************************************************************************)
(* SpecCaches: two runs of ConsumeRestoreCollections at the same time.     *)
(* The heap holds the restoreCaches instances made so far; the caches      *)
(* variable of a run refers to one of them by its position, 0 before the   *)
(* run has made its caches.  A run reads and writes the three maps of the  *)
(* instance it refers to; every entry carries the run that wrote it.       *)
(***************************************************************************)
Runs == {1, 2}

CacheMaps == {"ParentDirToMeta", "OldPermIDToNewID", "collisionKeyToItemID"}

CacheKeys == {"k1", "k2"}

\* A restoreCaches whose maps are empty.
EmptyCaches == [m \in CacheMaps |-> <<>>]

sharedCachesRef(h) == 1

\* caches = onedrive.NewRestoreCaches(): an instance of its own.
newCachesRef(h) == Len(h) + 1

InitCaches ==
    /\ heap = <<>>
    /\ runCaches = [r \in Runs |-> 0]
    /\ readLog = {}
    /\ overwritten = FALSE
    /\ IdleEquals
    /\ IdleDiff
    /\ IdleParent
    /\ IdleUpdate
    /\ IdleContact
    /\ IdleRestore
    /\ IdleConsume
    /\ IdleCollMeta
    /\ IdleFilter
    /\ IdleRestoreRun
    /\ IdleDrives

\* Run r begins: it makes its caches.
RunBegin(r) ==
    /\ runCaches[r] = 0
    /\ LET ref == newCachesRef(heap)
       IN /\ heap' = IF ref > Len(heap) THEN Append(heap, EmptyCaches) ELSE heap
          /\ runCaches' = [runCaches EXCEPT ![r] = ref]
    /\ UNCHANGED <<readLog, overwritten>>
    /\ UNCHANGED <<eqVars, diffVars, parentVars, upVars, rcVars, rpVars, crVars>>
    /\ UNCHANGED <<cmVars, fpVars, rrVars, gdVars>>

\* Run r puts an entry for key k into map m of its caches.
RunPut(r, m, k) ==
    /\ runCaches[r] # 0
    /\ LET c == heap[runCaches[r]]
       IN /\ heap' = [heap EXCEPT ![runCaches[r]][m] =
                         [x \in DOMAIN c[m] \cup {k} |-> IF x = k THEN r ELSE c[m][x]]]
          /\ overwritten' = (overwritten \/ (k \in DOMAIN c[m] /\ c[m][k] # r))
    /\ UNCHANGED <<runCaches, readLog>>
    /\ UNCHANGED <<eqVars, diffVars, parentVars, upVars, rcVars, rpVars, crVars>>
    /\ UNCHANGED <<cmVars, fpVars, rrVars, gdVars>>

\* Run r looks key k up in map m of its caches and finds an entry.
RunGet(r, m, k) ==
    /\ runCaches[r] # 0
    /\ k \in DOMAIN heap[runCaches[r]][m]
    /\ readLog' = readLog \cup {[run |-> r, by |-> heap[runCaches[r]][m][k]]}
    /\ UNCHANGED <<heap, runCaches, overwritten>>
    /\ UNCHANGED <<eqVars, diffVars, parentVars, upVars, rcVars, rpVars, crVars>>
    /\ UNCHANGED <<cmVars, fpVars, rrVars, gdVars>>

NextCaches ==
    \/ \E r \in Runs : RunBegin(r)
    \/ \E r \in Runs, m \in CacheMaps, k \in CacheKeys : RunPut(r, m, k)
    \/ \E r \in Runs, m \in CacheMaps, k \in CacheKeys : RunGet(r, m, k)

SpecCaches == InitCaches /\ [][NextCaches]_vars

(***************************************************************************)
(* Properties of the caches of concurrent runs (SpecCaches).               *)
(***************************************************************************)
\* C24: each run has a restoreCaches instance of its own: an entry that one
\* run wrote into a map of its caches is never read and never overwritten
\* by the other run.
C24_CachesPerRun ==
    /\ \A r1, r2 \in Runs :
          (r1 # r2 /\ runCaches[r1] # 0 /\ runCaches[r2] # 0)
              => runCaches[r1] # runCaches[r2]
    /\ \A r \in Runs : runCaches[r] # 0 =>
          \A m \in CacheMaps : \A k \in DOMAIN heap[runCaches[r]][m] :
              heap[runCaches[r]][m][k] = r
    /\ \A e \in readLog : e.by = e.run
    /\ ~overwritten

C24_Witness ==
    /\ \A r \in Runs :
          /\ runCaches[r] # 0
          /\ \A m \in CacheMaps : "k1" \in DOMAIN heap[runCaches[r]][m]
    /\ readLog = {[run |-> r, by |-> r] : r \in Runs}

(***************************************************************************)
(* SpecConsume: one call of ConsumeRestoreCollections on up to MaxColls    *)
(* collections, given in any order, with a fault bus of either mode.  The  *)
(* caller may cancel ctx at any time.  SpecConsumeFair adds that a         *)
(* goroutine that can take a step takes one in the end; nothing says that  *)
(* the caller ever cancels.                                                *)
(***************************************************************************)
Colls ==
    {Collection(ListsCategory, <<"a">>, MaxItems),
     Collection(ListsCategory, <<"a", "b">>, 1),
     Collection(PagesCategory, <<"a">>, 1),
     Collection("email", <<"a">>, 1)}

InitConsume ==
    /\ dcs \in {d \in SeqsUpTo(Colls, MaxColls) :
                    /\ Len(d) > 0
                    /\ \A i \in 1..Len(d) : \A j \in 1..Len(d) : i # j => d[i] # d[j]}
    /\ dcsIn = dcs
    /\ failFast \in BOOLEAN
    /\ ctxDone = FALSE
    /\ crPc = "start"
    /\ crIdx = 1
    /\ restoreMetrics = NoMetrics
    /\ elCurrent = "nil"
    /\ recoverable = <<>>
    /\ crStatus = NilStatus
    /\ crErr = "nil"
    /\ processed = <<>>
    /\ IdleCollection
    /\ IdleEquals
    /\ IdleDiff
    /\ IdleParent
    /\ IdleUpdate
    /\ IdleContact
    /\ IdleRestore
    /\ IdleCollMeta
    /\ IdleFilter
    /\ IdleCaches
    /\ IdleRestoreRun
    /\ IdleDrives

NextConsume ==
    \/ CRSort
    \/ CRBreakOnFailure
    \/ CRUnsupported
    \/ CRBeginCollection
    \/ RLBreakOnFailure
    \/ RLCancelled
    \/ RLNoMoreItems
    \/ RLItem
    \/ CRCollectionDone
    \/ CRLoopEnd
    \/ CRReturn
    \/ ProducerSend
    \/ ProducerClose
    \/ CtxCancel

SpecConsume == InitConsume /\ [][NextConsume]_vars

SpecConsumeFair == SpecConsume /\ WF_vars(Consumer) /\ WF_vars(Producer)

(***************************************************************************)
(* Properties of ConsumeRestoreCollections (SpecConsume).                  *)
(***************************************************************************)
\* C14: whatever the order in which the collections are given, a collection
\* is begun only after every given collection whose path is a proper
\* ancestor of its path has been begun.
C14_ParentBeforeChild ==
    \A j \in 1..Len(processed) : \A k \in 1..Len(dcsIn) :
        IsProperPrefix(FullPath(dcsIn[k]), processed[j])
            => \E i \in 1..(j - 1) : processed[i] = FullPath(dcsIn[k])

C14_Witness ==
    /\ crPc = "done"
    /\ Len(dcsIn) = 2
    /\ IsProperPrefix(FullPath(dcsIn[2]), FullPath(dcsIn[1]))
    /\ processed = <<FullPath(dcsIn[2]), FullPath(dcsIn[1])>>

\* A collection returned the cancellation error to ConsumeRestoreCollections.
cancelSeen == \E i \in 1..Len(recoverable) : isCanceled(recoverable[i])

\* Every given collection is of a category that ConsumeRestoreCollections restores.
allSupported ==
    \A k \in 1..Len(dcs) : dcs[k].category \in {ListsCategory, PagesCategory}

\* The restores that counted as a success.
succeeded == SelectSeq(restored, LAMBDA r : ~isItemError(r.outcome))

\* C15: the failure of a collection is recorded in the fault bus and the
\* next collection is restored all the same, so that without a cancellation
\* every collection is begun; a collection that returns the cancellation
\* error is the last one begun; either way the status of the metrics so far
\* is returned.
C15_ContinueUnlessCancelled ==
    (crPc = "done" /\ allSupported) =>
        /\ ~crStatus.nil
        /\ crStatus.metrics = restoreMetrics
        /\ IF cancelSeen
           THEN /\ Len(processed) = crIdx
                /\ isCanceled(recoverable[Len(recoverable)])
           ELSE processed = [k \in 1..Len(dcs) |-> FullPath(dcs[k])]

\* C16: when a collection is cancelled midway, every item restored before
\* is counted in the metrics of the returned status, the successful ones as
\* successes, and ConsumeRestoreCollections returns an error that matches
\* context.Canceled.
C16_CancelledMidCollection ==
    (crPc = "done" /\ cancelSeen) =>
        /\ ~crStatus.nil
        /\ crStatus.metrics.Objects = Len(restored)
        /\ crStatus.metrics.Successes = Len(succeeded)
        /\ isCanceled(crErr)

\* C17: once ctx is cancelled no further item restore begins, even when an
\* item is ready on the item channel.
C17_NoItemAfterCancel ==
    \A i \in 1..Len(restored) : ~restored[i].afterCancel

\* C18: when RestoreListCollection or RestorePageCollection has returned on
\* cancellation, the producer of its item channel is not left waiting
\* forever: it comes to send its last item and close the channel.
C18_ProducerNotBlocked ==
    (rlErr = ErrCanceled /\ rlPc \in {"returned", "idle"}) ~> itemsClosed

\* A step that restores an item whose deets.Add fails.
deetsAddFails ==
    /\ Len(restored') = Len(restored) + 1
    /\ restored'[Len(restored')].outcome = "deets"

\* C27: when deets.Add fails for an item of RestoreListCollection or
\* RestorePageCollection, nothing is added to the fault collector, the
\* item is counted in Successes, and the loop goes on to the next item.
C27_DeetsFailureNotFatal ==
    [][deetsAddFails =>
          /\ recoverable' = recoverable
          /\ rlEl' = rlEl
          /\ elCurrent' = elCurrent
          /\ rlMetrics'.Successes = rlMetrics.Successes + 1
          /\ rlMetrics'.Objects = rlMetrics.Objects + 1
          /\ rlPc' = "loop"
          /\ rlErr' = rlErr]_vars

C27_Witness ==
    /\ Len(restored) = 2
    /\ restored[1].outcome = "deets"
    /\ restored[2].outcome = "ok"
    /\ restored[2].path = restored[1].path
    /\ recoverable = <<>>
    /\ rlMetrics.Successes = 2

\* The items of the log that satisfy P.
countRestored(P(_)) == Cardinality({i \in 1..Len(restored) : P(restored[i])})

\* The sum of the metrics that the collections begun so far have returned:
\* an object for every item received, its bytes for every item whose
\* restore did not fail, a success for every item that reached the end of
\* its turn of the loop.
runTotals ==
    CollectionMetrics(Len(restored),
                      ItemSize * countRestored(LAMBDA e : e.outcome # "restoring item"),
                      countRestored(LAMBDA e : e.outcome \in {"deets", "ok"}))

\* C28: the totals of the status that ConsumeRestoreCollections returns are
\* the sums of the objects, bytes and successes that the collections it
\* began have returned, those that failed or were cancelled part-way
\* included.
C28_RunTotals ==
    /\ (crPc = "done" /\ ~crStatus.nil) => crStatus.metrics = runTotals
    /\ (crPc \in {"loop", "afterLoop"}) => restoreMetrics = runTotals

C28_Witness ==
    /\ crPc = "done"
    /\ ~crStatus.nil
    /\ Len(processed) = 2
    /\ rlErr = ErrCanceled
    /\ Len(restored) = 2
    /\ restored[1].path # restored[2].path
    /\ restored[2].outcome = "ok"
    /\ dcs[2].n = 2
    /\ crStatus.metrics.Successes = 2

(***************************************************************************)
(* Further properties of UpdatePermissions (SpecUpdate).                   *)
(***************************************************************************)
\* The removals whose id has no entry in oldPermIDToNewID.  No step of the
\* first loop changes the map, so the set is the same throughout the loop.
unmappedRemovals ==
    {i \in 1..Len(permRemoved) : permRemoved[i].ID \notin DOMAIN oldPermIDToNewID}

firstUnmapped == CHOOSE i \in unmappedRemovals : \A j \in unmappedRemovals : i <= j

\* C29: when a permission of permRemoved has no entry in oldPermIDToNewID,
\* UpdatePermissions issues no delete for it or for a later removal and adds
\* no permission; it ends with an error, which is "no new permission id"
\* once the deletes of the removals before it have succeeded, and those
\* deletes are followed by no further call.
C29_NoNewPermissionID ==
    unmappedRemovals # {} =>
        /\ Len(upCalls) < firstUnmapped
        /\ \A n \in 1..Len(upCalls) :
              /\ upCalls[n].op = "delete"
              /\ upCalls[n].pid = oldPermIDToNewID[permRemoved[n].ID]
        /\ upPc # "adding"
        /\ upPc = "done" =>
              /\ upErr # "nil"
              /\ (\A n \in 1..Len(upCalls) : upCalls[n].ok) =>
                    /\ upErr = "no new permission id"
                    /\ Len(upCalls) = firstUnmapped - 1

C29_Witness ==
    /\ upPc = "done"
    /\ upErr = "no new permission id"
    /\ Len(permRemoved) = 2
    /\ permAdded # <<>>
    /\ Len(upCalls) = 1
    /\ upCalls[1].op = "delete"
    /\ upCalls[1].ok

\* The added permissions that are posted: those the add loop does not skip.
postedAdds == {i \in 1..Len(permAdded) : ~skipsAdd(permAdded[i])}

\* The id that the create call of the i-th added permission returned: the
\* service numbers the permissions it creates in the order of the calls.
createdID(i) == <<"new", Cardinality({j \in postedAdds : j <= i})>>

\* C31: after UpdatePermissions has returned without error, the entry of
\* oldPermIDToNewID for the id of every added permission that was posted is
\* the id that its own create call returned, also when added permissions
\* have empty or repeated ids.
C31_RemapHoldsOwnNewID ==
    (upPc = "done" /\ upErr = "nil") =>
        \A i \in postedAdds :
            /\ permAdded[i].ID \in DOMAIN oldPermIDToNewID
            /\ oldPermIDToNewID[permAdded[i].ID] = createdID(i)

\* The added permissions that the add loop has dealt with so far.
addsHandled ==
    IF upPc = "adding" THEN SubSeq(permAdded, 1, upIdx - 1)
    ELSE IF upPc = "done" /\ upErr = "nil" THEN permAdded
    ELSE <<>>

\* The roles of p that are not "owner", in the order of p.Roles.
rolesWithoutOwner(p) == SelectSeq(p.Roles, LAMBDA r : r # "owner")

\* A permission without such a role, or of a site group.
notRestorable(p) == rolesWithoutOwner(p) = <<>> \/ p.EntityType = "site_group"

\* C32: UpdatePermissions issues no create call and records no id for an
\* added permission that has no role other than owner or that is of a site
\* group, and goes on with the next one; for every other added permission
\* it posts the roles other than owner in their order, to the entity id
\* when there is one and to the email otherwise.
C32_SkippedAndPostedAdds ==
    (upPc = "adding" \/ (upPc = "done" /\ upErr = "nil")) =>
        LET posts == SelectSeq(upCalls, LAMBDA c : c.op = "post")
            due == SelectSeq(addsHandled, LAMBDA p : ~notRestorable(p))
        IN /\ Len(posts) = Len(due)
           /\ \A k \in 1..Len(due) :
                 /\ posts[k].roles = rolesWithoutOwner(due[k])
                 /\ posts[k].rec = IF due[k].EntityID # ""
                                   THEN [kind |-> "objectId", val |-> due[k].EntityID]
                                   ELSE [kind |-> "email", val |-> due[k].Email]
           /\ \A k \in 1..Len(addsHandled) :
                 (/\ notRestorable(addsHandled[k])
                  /\ \A j \in 1..Len(due) : due[j].ID # addsHandled[k].ID)
                     => (addsHandled[k].ID \in DOMAIN oldPermIDToNewID
                            => oldPermIDToNewID[addsHandled[k].ID][1] = "srv")

C32_Witness ==
    /\ upPc = "done"
    /\ upErr = "nil"
    /\ Len(permAdded) = 2
    /\ permAdded[1].EntityType = GV2SiteGroup
    /\ permAdded[2].Roles = <<"owner", "write">>
    /\ Len(upCalls) = 1
    /\ upCalls[1].op = "post"
    /\ upCalls[1].roles = <<"write">>
    /\ "p4" \notin DOMAIN oldPermIDToNewID

(***************************************************************************)
(* Further properties of RestorePermissions (SpecRestore).                 *)
(***************************************************************************)
\* C33: an empty Metadata is never treated as one of sharing mode custom:
\* computeParentPermissions does not stop at a cached ancestor whose
\* metadata is empty, and RestorePermissions of an item whose own metadata
\* is empty issues no DeleteItemPermission call.
C33_EmptyMetadataNotCustom ==
    /\ (parentOut.called /\ parentOut.err = "nil" /\ parentOut.lookups # <<>>) =>
          parentMetas[parentOut.lookups[Len(parentOut.lookups)]] # EmptyMetadata
    /\ current = EmptyMetadata =>
          \A n \in 1..Len(upCalls) : upCalls[n].op # "delete"

(***************************************************************************)
(* Further properties of DiffPermissions (SpecDiff).                       *)
(***************************************************************************)
\* C34: DiffPermissions, and the Equals calls it makes, leave every
\* permission of before and of after with the roles it had, in the order it
\* had them.
C34_DiffLeavesInputsAlone ==
    diffOut.called =>
        /\ \A k \in 1..Len(before) : diffOut.before[k].Roles = before[k].Roles
        /\ \A k \in 1..Len(after) : diffOut.after[k].Roles = after[k].Roles

(***************************************************************************)
(* SpecParentMeta: one call of getParentMetadata with a path that is the   *)
(* drive root, a folder below it, or too short to be a drive path, and a   *)
(* cache that holds any part of the path and its ancestors.                *)
(***************************************************************************)
ShortPath == <<"drives", "d1">>

InitParentMeta ==
    /\ originDir \in {DriveRoot \o f : f \in SeqsUpTo(FolderNames, MaxDepth - 1)}
                       \cup {ShortPath}
    /\ \E D \in SUBSET (Ancestors(originDir) \cup {originDir}) :
          parentMetas \in [D -> CachedMetas]
    /\ parentOut = NoParentOut
    /\ IdleCollMeta
    /\ IdleEquals
    /\ IdleDiff
    /\ IdleUpdate
    /\ IdleContact
    /\ IdleRestore
    /\ IdleConsume
    /\ IdleFilter
    /\ IdleCaches
    /\ IdleRestoreRun
    /\ IdleDrives

CallGetParentMetadata ==
    /\ ~gpOut.called
    /\ LET r == getParentMetadata(originDir, parentMetas)
       IN gpOut' = [called |-> TRUE, meta |-> r.meta, err |-> r.err]
    /\ UNCHANGED <<backupVersion, restorePerms, dcFiles, cmOut>>
    /\ UNCHANGED <<eqVars, diffVars, parentVars, upVars, rcVars, rpVars, crVars>>
    /\ UNCHANGED <<fpVars, ccVars, rrVars, gdVars>>

NextParentMeta == CallGetParentMetadata

SpecParentMeta == InitParentMeta /\ [][NextParentMeta]_vars

\* C35: getParentMetadata returns the cached metadata and no error when the
\* path is a key of the cache; the empty Metadata and no error when the path
\* is not a key and is the drive root; an error when the path is not a key
\* and has at least one folder below the drive root.
C35_GetParentMetadata ==
    gpOut.called =>
        /\ originDir \in DOMAIN parentMetas =>
              gpOut.err = "nil" /\ gpOut.meta = parentMetas[originDir]
        /\ (originDir \notin DOMAIN parentMetas /\ originDir = DriveRoot) =>
              gpOut.err = "nil" /\ gpOut.meta = EmptyMetadata
        /\ (originDir \notin DOMAIN parentMetas /\ Len(originDir) > Len(DriveRoot)) =>
              gpOut.err # "nil"

\* A folder that is not cached while the drive root is: the call fails.
C35_Witness ==
    /\ gpOut.called
    /\ originDir = DriveRoot \o <<"a">>
    /\ DOMAIN parentMetas = {DriveRoot}
    /\ gpOut.err = "computing item permissions"

(***************************************************************************)
(* Further properties of RestoreListCollection and RestorePageCollection   *)
(* (SpecConsume, SpecConsumeFair).                                         *)
(***************************************************************************)
\* The item of the log was received by the collection at hand.
ofCollection(e) == crIdx <= Len(dcs) /\ e.path = FullPath(dcs[crIdx])

\* C36: while a collection is restored, Objects is the number of items it
\* has received, Successes the number of those whose restore and item path
\* both succeeded, so Successes <= Objects; an item whose restore failed is
\* among the recoverable errors, added nothing to Bytes, and the loop still
\* takes the next item: it never leaves through its failure test.
C36_ItemLoopCounts ==
    rlPc \in {"loop", "returned"} =>
        /\ rlMetrics.Objects = countRestored(ofCollection)
        /\ rlMetrics.Successes =
              countRestored(LAMBDA e : ofCollection(e) /\ e.outcome \in {"deets", "ok"})
        /\ rlMetrics.Successes <= rlMetrics.Objects
        /\ rlMetrics.Bytes =
              ItemSize * countRestored(LAMBDA e : ofCollection(e)
                                                    /\ e.outcome # "restoring item")
        /\ countRestored(LAMBDA e : e.outcome = "restoring item")
              = Cardinality({k \in 1..Len(recoverable) : recoverable[k] = "restoring item"})
        /\ rlPc = "loop" => rlEl = "nil"

\* SpecItemLoopFair: one call of RestoreListCollection or of
\* RestorePageCollection, from the top of its loop, for a collection of up to
\* MaxItems items.  The loop and the producer each keep running while they
\* can take a step; ctx is cancelled before the call, during it or never.
InitItemLoop ==
    /\ \E cat \in {ListsCategory, PagesCategory} : \E n \in 0..MaxItems :
          /\ dcs = <<Collection(cat, <<"a">>, n)>>
          /\ pending = [k \in 1..n |-> k]
    /\ dcsIn = dcs
    /\ failFast \in BOOLEAN
    /\ ctxDone \in BOOLEAN
    /\ crPc = "inColl"
    /\ crIdx = 1
    /\ restoreMetrics = NoMetrics
    /\ elCurrent = "nil"
    /\ recoverable = <<>>
    /\ crStatus = NilStatus
    /\ crErr = "nil"
    /\ processed = <<FullPath(dcs[1])>>
    /\ rlPc = "loop"
    /\ rlMetrics = NoMetrics
    /\ rlEl = "nil"
    /\ rlErr = "nil"
    /\ items = <<>>
    /\ itemsClosed = FALSE
    /\ restored = <<>>
    /\ IdleEquals
    /\ IdleDiff
    /\ IdleParent
    /\ IdleUpdate
    /\ IdleContact
    /\ IdleRestore
    /\ IdleCollMeta
    /\ IdleFilter
    /\ IdleCaches
    /\ IdleRestoreRun
    /\ IdleDrives

ItemLoop ==
    \/ RLBreakOnFailure
    \/ RLCancelled
    \/ RLNoMoreItems
    \/ RLItem

NextItemLoop ==
    \/ RLBreakOnFailure
    \/ RLCancelled
    \/ RLNoMoreItems
    \/ RLItem
    \/ ProducerSend
    \/ ProducerClose
    \/ CtxCancel

SpecItemLoopFair ==
    InitItemLoop /\ [][NextItemLoop]_vars /\ WF_vars(ItemLoop) /\ WF_vars(Producer)

\* The loop leaves through the receive on the closed channel with
\* (metrics, nil) and through ctx.Done() with the context error; the metrics
\* it returns are those it had.
loopExitValues ==
    (rlPc = "loop" /\ rlEl = "nil" /\ rlPc' = "returned") =>
        /\ rlMetrics' = rlMetrics
        /\ rlErr' \in {"nil", ErrCanceled}
        /\ rlErr' = "nil" => (items = <<>> /\ itemsClosed)
        /\ rlErr' = ErrCanceled => ctxDone
        /\ ~ctxDone => rlErr' = "nil"
        /\ ~(items = <<>> /\ itemsClosed) => rlErr' = ErrCanceled

\* C37: with every item restore returning and the producer running until it
\* has closed the channel, the loop of RestoreListCollection and of
\* RestorePageCollection always exits; it returns (metrics, nil) when it
\* finds the channel closed and the context error when it finds the context
\* cancelled.
C37_ItemLoopTerminates ==
    /\ (rlPc = "loop") ~> (rlPc = "returned")
    /\ [][loopExitValues]_vars

\* The loop has returned (metrics, nil) after two items, one of which failed.
C37_Witness ==
    /\ rlPc = "returned"
    /\ rlErr = "nil"
    /\ ~ctxDone
    /\ itemsClosed
    /\ rlMetrics.Objects = 2
    /\ rlMetrics.Successes = 1

(***************************************************************************)
(* Further properties of ConsumeRestoreCollections (SpecConsume).          *)
(***************************************************************************)
\* The category has no case of its own in the switch.
unsupported(dc) == dc.category \notin {ListsCategory, PagesCategory}

\* C38: when the loop of ConsumeRestoreCollections comes to a collection
\* whose category is not supported, the run returns a nil status and the
\* error "category not supported": that collection and those after it are
\* never begun, and the metrics of the collections restored before it are
\* not part of what is returned.
C38_UnsupportedCategory ==
    /\ \A i \in 1..Len(dcs) :
          (crPc # "start" /\ unsupported(dcs[i])) =>
              \A j \in i..Len(dcs) : \A k \in 1..Len(processed) :
                  processed[k] # FullPath(dcs[j])
    /\ (crPc = "done" /\ crIdx <= Len(dcs) /\ unsupported(dcs[crIdx]) /\ elCurrent = "nil") =>
          /\ crErr = "category not supported"
          /\ crStatus = NilStatus
    /\ (crPc = "done" /\ crErr = "category not supported") =>
          /\ crStatus = NilStatus
          /\ crIdx <= Len(dcs) /\ unsupported(dcs[crIdx])
          /\ Len(processed) = crIdx - 1

\* A collection with a restored item, then one of an unsupported category.
C38_Witness ==
    /\ crPc = "done"
    /\ crErr = "category not supported"
    /\ crStatus = NilStatus
    /\ Len(dcs) = 2
    /\ crIdx = 2
    /\ Len(processed) = 1
    /\ restoreMetrics.Successes >= 1

(***************************************************************************)
(* GetAllDrives.  The pager serves gdIn.pages pages; page k holds the      *)
(* drives DrivesOf(k) and a next link unless it is the last.  pagerAt is   *)
(* the page that pager.GetPage fetches, moved on by pager.SetNext.  Each   *)
(* GetPage call is one step and is logged in getPageCalls with the page it *)
(* asked for, the value of i and its outcome.  gdPc is "start", "retry"    *)
(* inside the retry loop, "values" after it and "done" once gdOut has been *)
(* returned.                                                               *)
(***************************************************************************)
MaxPages == 2
MaxRetry == 2

DrivesOf(k) == <<k>>

\* GetPage succeeds, times out, fails otherwise, or fails with an error that
\* carries graph.LabelsMysiteNotFound.
GetPageOutcomes == {"ok", "timeout", "other", "my site not found"}

DrivesOut(isNil, drives, err) ==
    [returned |-> TRUE, nil |-> isNil, ds |-> drives, err |-> err]

GetPageCall(o) == [page |-> pagerAt, i |-> attempt, outcome |-> o]

\* ds := []models.Driveable{}; if !retry { maxRetryCount = 0 }
GDStart ==
    /\ gdPc = "start"
    /\ ds' = <<>>
    /\ maxRetryCount' = IF gdIn.retry THEN maxRetryCount ELSE 0
    /\ attempt' = 0
    /\ page' = NilPage
    /\ gdPc' = "retry"
    /\ UNCHANGED <<gdIn, pagerAt, getPageCalls, gdOut>>
    /\ UNCHANGED <<eqVars, diffVars, parentVars, upVars, rcVars, rpVars, crVars>>
    /\ UNCHANGED <<cmVars, fpVars, ccVars, rrVars>>

\* page, err = pager.GetPage(ctx) with err == nil: break
GDGetPage ==
    /\ gdPc = "retry"
    /\ attempt <= maxRetryCount
    /\ getPageCalls' = Append(getPageCalls, GetPageCall("ok"))
    /\ page' = pagerAt
    /\ gdPc' = "values"
    /\ UNCHANGED <<gdIn, maxRetryCount, ds, attempt, pagerAt, gdOut>>
    /\ UNCHANGED <<eqVars, diffVars, parentVars, upVars, rcVars, rpVars, crVars>>
    /\ UNCHANGED <<cmVars, fpVars, ccVars, rrVars>>

GDMySiteNotFoundKeepsDrives ==
    /\ gdPc = "retry"
    /\ attempt <= maxRetryCount
    /\ getPageCalls' = Append(getPageCalls, GetPageCall("my site not found"))
    /\ gdOut' = DrivesOut(FALSE, ds, "nil")
    /\ gdPc' = "done"
    /\ UNCHANGED <<gdIn, maxRetryCount, ds, attempt, page, pagerAt>>
    /\ UNCHANGED <<eqVars, diffVars, parentVars, upVars, rcVars, rpVars, crVars>>
    /\ UNCHANGED <<cmVars, fpVars, ccVars, rrVars>>

\* if clues.HasLabel(err, graph.LabelsMysiteNotFound)
\*     { return make([]models.Driveable, 0), nil }
GDMySiteNotFound ==
    /\ gdPc = "retry"
    /\ attempt <= maxRetryCount
    /\ getPageCalls' = Append(getPageCalls, GetPageCall("my site not found"))
    /\ gdOut' = DrivesOut(FALSE, <<>>, "nil")
    /\ gdPc' = "done"
    /\ UNCHANGED <<gdIn, maxRetryCount, ds, attempt, page, pagerAt>>
    /\ UNCHANGED <<eqVars, diffVars, parentVars, upVars, rcVars, rpVars, crVars>>
    /\ UNCHANGED <<cmVars, fpVars, ccVars, rrVars>>

\* if graph.IsErrTimeout(err) && i < maxRetryCount { time.Sleep(...); continue }
GDRetryAfterTimeout ==
    /\ gdPc = "retry"
    /\ attempt <= maxRetryCount
    /\ attempt < maxRetryCount
    /\ getPageCalls' = Append(getPageCalls, GetPageCall("timeout"))
    /\ attempt' = attempt + 1
    /\ UNCHANGED <<gdIn, maxRetryCount, ds, page, pagerAt, gdPc, gdOut>>
    /\ UNCHANGED <<eqVars, diffVars, parentVars, upVars, rcVars, rpVars, crVars>>
    /\ UNCHANGED <<cmVars, fpVars, ccVars, rrVars>>

\* return nil, graph.Wrap(ctx, err, "retrieving drives"): an error that is
\* not a timeout, or a timeout of the last attempt.
GDGetPageFails ==
    /\ gdPc = "retry"
    /\ attempt <= maxRetryCount
    /\ \E o \in {"timeout", "other"} :
          /\ o = "timeout" => ~(attempt < maxRetryCount)
          /\ getPageCalls' = Append(getPageCalls, GetPageCall(o))
    /\ gdOut' = DrivesOut(TRUE, <<>>, "retrieving drives")
    /\ gdPc' = "done"
    /\ UNCHANGED <<gdIn, maxRetryCount, ds, attempt, page, pagerAt>>
    /\ UNCHANGED <<eqVars, diffVars, parentVars, upVars, rcVars, rpVars, crVars>>
    /\ UNCHANGED <<cmVars, fpVars, ccVars, rrVars>>

\* for i := 0; i <= maxRetryCount; i++ with the condition false: the retry
\* loop ends with page and err as declared, both nil.
GDRetryLoopEnds ==
    /\ gdPc = "retry"
    /\ ~(attempt <= maxRetryCount)
    /\ gdPc' = "values"
    /\ UNCHANGED <<gdIn, maxRetryCount, ds, attempt, page, pagerAt, getPageCalls, gdOut>>
    /\ UNCHANGED <<eqVars, diffVars, parentVars, upVars, rcVars, rpVars, crVars>>
    /\ UNCHANGED <<cmVars, fpVars, ccVars, rrVars>>

\* tmp, err := pager.ValuesIn(page); if err != nil { return nil, ... }.
\* getValues fails for a page without GetValue(), as the nil page is.
GDValuesInFails ==
    /\ gdPc = "values"
    /\ gdOut' = DrivesOut(TRUE, <<>>, "extracting drives from response")
    /\ gdPc' = "done"
    /\ UNCHANGED <<gdIn, maxRetryCount, ds, attempt, page, pagerAt, getPageCalls>>
    /\ UNCHANGED <<eqVars, diffVars, parentVars, upVars, rcVars, rpVars, crVars>>
    /\ UNCHANGED <<cmVars, fpVars, ccVars, rrVars>>

\* ds = append(ds, tmp...); with a next link pager.SetNext(nextLink) and the
\* next turn of the outer loop, which declares page and err anew.
GDNextPage ==
    /\ gdPc = "values"
    /\ page # NilPage
    /\ page < gdIn.pages
    /\ ds' = ds \o DrivesOf(page)
    /\ pagerAt' = page + 1
    /\ page' = NilPage
    /\ attempt' = 0
    /\ gdPc' = "retry"
    /\ UNCHANGED <<gdIn, maxRetryCount, getPageCalls, gdOut>>
    /\ UNCHANGED <<eqVars, diffVars, parentVars, upVars, rcVars, rpVars, crVars>>
    /\ UNCHANGED <<cmVars, fpVars, ccVars, rrVars>>

\* ds = append(ds, tmp...); if len(nextLink) == 0 { break }; return ds, nil
GDLastPage ==
    /\ gdPc = "values"
    /\ page # NilPage
    /\ page = gdIn.pages
    /\ ds' = ds \o DrivesOf(page)
    /\ gdOut' = DrivesOut(FALSE, ds', "nil")
    /\ gdPc' = "done"
    /\ UNCHANGED <<gdIn, maxRetryCount, attempt, page, pagerAt, getPageCalls>>
    /\ UNCHANGED <<eqVars, diffVars, parentVars, upVars, rcVars, rpVars, crVars>>
    /\ UNCHANGED <<cmVars, fpVars, ccVars, rrVars>>

(***************************************************************************)
(* SpecDrives: one call of GetAllDrives with either value of retry, a      *)
(* maxRetryCount from -1 to MaxRetry, and a pager of up to MaxPages pages. *)
(***************************************************************************)
InitDrives ==
    /\ \E r \in BOOLEAN : \E m \in (-1)..MaxRetry : \E n \in 1..MaxPages :
          /\ gdIn = [retry |-> r, maxRetryCount |-> m, pages |-> n]
          /\ maxRetryCount = m
    /\ ds = <<>>
    /\ attempt = 0
    /\ page = NilPage
    /\ pagerAt = 1
    /\ getPageCalls = <<>>
    /\ gdPc = "start"
    /\ gdOut = NoDrivesOut
    /\ IdleEquals
    /\ IdleDiff
    /\ IdleParent
    /\ IdleUpdate
    /\ IdleContact
    /\ IdleRestore
    /\ IdleConsume
    /\ IdleCollMeta
    /\ IdleFilter
    /\ IdleCaches
    /\ IdleRestoreRun

NextDrives ==
    \/ GDStart
    \/ GDGetPage
    \/ GDMySiteNotFound
    \/ GDRetryAfterTimeout
    \/ GDGetPageFails
    \/ GDRetryLoopEnds
    \/ GDValuesInFails
    \/ GDNextPage
    \/ GDLastPage

SpecDrives == InitDrives /\ [][NextDrives]_vars

(***************************************************************************)
(* Properties of GetAllDrives (SpecDrives).                                *)
(***************************************************************************)
\* The GetPage calls made for page k.
callsFor(k) == {n \in 1..Len(getPageCalls) : getPageCalls[n].page = k}

\* The pages whose retry loop is over.
pagesTried ==
    {k \in 1..gdIn.pages :
        k < pagerAt \/ (k = pagerAt /\ gdPc \in {"values", "done"})}

\* C39: for every retry and maxRetryCount, GetAllDrives calls GetPage at
\* least once and at most maxRetryCount+1 times for each page it comes to,
\* exactly once when retry is false; a call for the same page follows only a
\* timeout, any other error ends the call with a nil result and an error,
\* and i starts at zero for every page.
C39_GetPageAttempts ==
    /\ \A k \in pagesTried :
          /\ Cardinality(callsFor(k)) >= 1
          /\ gdIn.retry => Cardinality(callsFor(k)) <= gdIn.maxRetryCount + 1
          /\ ~gdIn.retry => Cardinality(callsFor(k)) = 1
    /\ \A n \in 1..Len(getPageCalls) :
          LET c == getPageCalls[n]
              first == n = 1 \/ getPageCalls[n - 1].page # c.page
          IN /\ first => c.i = 0
             /\ ~first => /\ getPageCalls[n - 1].outcome = "timeout"
                           /\ c.i = getPageCalls[n - 1].i + 1
             /\ c.outcome = "other" =>
                   /\ n = Len(getPageCalls)
                   /\ gdPc = "done"
                   /\ gdOut = DrivesOut(TRUE, <<>>, "retrieving drives")

\* C40: a GetPage error labelled "my site not found" ends GetAllDrives at
\* once, on whichever page and attempt it occurs, with an empty list that
\* is not nil and no error; the drives of earlier pages are not returned.
C40_MySiteNotFound ==
    \A n \in 1..Len(getPageCalls) :
        getPageCalls[n].outcome = "my site not found" =>
            /\ n = Len(getPageCalls)
            /\ gdPc = "done"
            /\ gdOut = DrivesOut(FALSE, <<>>, "nil")

\* The error comes on the second page, after a timeout, with the drives of
\* the first page collected.
C40_Witness ==
    /\ gdPc = "done"
    /\ Len(getPageCalls) = 3
    /\ getPageCalls[2].outcome = "timeout"
    /\ getPageCalls[3] = [page |-> 2, i |-> 1, outcome |-> "my site not found"]
    /\ ds = DrivesOf(1)
    /\ gdOut.ds = <<>>
    /\ gdOut.err = "nil"

====
